---- MODULE Spec2Model ----
(***************************************************************************)
(* The paint workspace of PixelPaint (Workspace component): the canonical  *)
(* grid held in React state, the refs the pointer handlers read, the       *)
(* pointer-gesture handlers (paint / pan / pinch) and the brush engine.    *)
(*                                                                         *)
(* Numbers.  Screen coordinates and pan are whole pixels; zoom is held in  *)
(* thousandths (1000 = zoom 1.0); quotients are floored.  The container's  *)
(* bounding rectangle has its top-left corner at the viewport origin.      *)
(***************************************************************************)
EXTENDS Integers, Sequences, FiniteSets, TLC

(***************************************************************************)
(* Program constants                                                       *)
(***************************************************************************)
BASE_CELL_SIZE == 20
MIN_ZOOM == 100
MAX_ZOOM == 5000
ZoomUnit == 1000
TapThreshold == 15
Undefined == -1
\* saveProject keeps the first 5 projects of the list.
MaxStored == 5
MaxTimers == 2           \* save timers pending at a time
MaxPalette == 4          \* colours of the palettes the auto-switch effect is run on
MaxGridSide == 15        \* sides of the grids the completion percentage is computed for
MaxMissing == 2          \* cells short of none, or of all, correct in those grids

(***************************************************************************)
(* Bounds of the model                                                     *)
(***************************************************************************)
Width == 2
Height == 1
NumColors == 3
MaxDrag == 20
MaxPan == 10
MaxZoomChanges == 1
\* The project store: ids, revisions of a project, quota of the origin.
NumIds == 6
NumRevs == 2
StorageQuota == 6
\* The largest grid side on which the brush footprint is computed on its own.
MaxSide == 4
\* The histories of the progress tracker count up to this number.
MaxCount == 2

Colors == 0 .. (NumColors - 1)
BrushSizes == {1, 2, 3}
Indices == 0 .. (Width * Height - 1)
\* A mouse is one pointer; a touch screen is modelled with two fingers.
MousePointers == {1}
TouchPointers == {1, 2}
\* A third finger can join the two of a pinch.
PinchPointers == TouchPointers \cup {3}
PointerIds == MousePointers \cup TouchPointers \cup PinchPointers
\* Client positions at which pointer events are delivered.
Pts == { <<10, 10>>, <<20, 10>>, <<40, 10>> }
\* Client positions at which the fingers of a touch screen are seen.
TouchPts == { <<10, 10>>, <<20, 10>> }
\* Client positions over the two cells, for the runs that watch the progress
\* tracker.
CellPts == { <<10, 10>>, <<20, 10>> }

Min(a, b) == IF a < b THEN a ELSE b
Max(a, b) == IF a > b THEN a ELSE b
Abs(a) == IF a < 0 THEN -a ELSE a

\* Math.hypot on whole pixels, floored; it is at least the longer leg.
RECURSIVE SqrtFrom(_, _)
SqrtFrom(n, r) == IF (r + 1) * (r + 1) > n THEN r ELSE SqrtFrom(n, r + 1)
Hypot(dx, dy) == SqrtFrom(dx * dx + dy * dy, Max(Abs(dx), Abs(dy)))

(***************************************************************************)
(* Cells and the project grid                                              *)
(***************************************************************************)
Cell(ci, f, fci) == [colorIndex |-> ci, filled |-> f, filledColorIndex |-> fci]

\* The grid the conversion step hands over: nothing filled yet.
ProjectGridOf(w, h) ==
  [i \in 0 .. (w * h - 1) |-> Cell(((i % w) + (i \div w)) % NumColors, FALSE, Undefined)]

ProjectGrid == ProjectGridOf(Width, Height)

IsCorrect(cell) == cell.filled /\ cell.filledColorIndex = cell.colorIndex

\* The statistics of the completion pass: the number of cells whose applied
\* colour is their target colour, over all cells and over those of one colour.
CorrectlyFilled(g) == Cardinality({ i \in DOMAIN g : g[i].filledColorIndex = g[i].colorIndex })
TotalOfColor(g, c) == Cardinality({ i \in DOMAIN g : g[i].colorIndex = c })
FilledOfColor(g, c) ==
  Cardinality({ i \in DOMAIN g : g[i].colorIndex = c /\ g[i].filledColorIndex = c })

\* Math.round((correctlyFilled / total) * 100)
Percent(g) ==
  LET total == Cardinality(DOMAIN g)
  IN (200 * CorrectlyFilled(g) + total) \div (2 * total)

(***************************************************************************)
(* The numbers of the program: IEEE 754 doubles, rounded to nearest even   *)
(***************************************************************************)
\* A significand or a product of two is a natural number written in NumLimbs
\* digits of base LimbBase, least significant first.
LimbBits == 14
NumLimbs == 8
SignificandBits == 53

RECURSIVE Pow2(_)
Pow2(k) == IF k = 0 THEN 1 ELSE 2 * Pow2(k - 1)
LimbBase == Pow2(LimbBits)

BigOf(n) == [i \in 1 .. NumLimbs |->
               IF i = 1 THEN n % LimbBase ELSE IF i = 2 THEN n \div LimbBase ELSE 0]
BigZero == BigOf(0)

\* The digits of a number whose digits c[i] are out of range, carries and
\* borrows propagated.
RECURSIVE CarryFrom(_, _, _)
CarryFrom(c, i, carry) ==
  IF i > NumLimbs THEN << >>
  ELSE LET v == c[i] + carry
       IN << v % LimbBase >> \o CarryFrom(c, i + 1, v \div LimbBase)

BigAdd(a, b) == CarryFrom([i \in 1 .. NumLimbs |-> a[i] + b[i]], 1, 0)
\* a - b, for a >= b
BigSub(a, b) == CarryFrom([i \in 1 .. NumLimbs |-> a[i] - b[i]], 1, 0)

RECURSIVE ConvSum(_, _, _, _)
ConvSum(a, b, k, i) ==
  IF i > k THEN 0 ELSE a[i] * b[k + 1 - i] + ConvSum(a, b, k, i + 1)
\* a * b, for a and b of at most four digits
BigMul(a, b) == CarryFrom([k \in 1 .. NumLimbs |-> ConvSum(a, b, k, 1)], 1, 0)

RECURSIVE BigLessFrom(_, _, _)
BigLessFrom(a, b, i) ==
  IF i = 0 THEN FALSE
  ELSE IF a[i] # b[i] THEN a[i] < b[i]
  ELSE BigLessFrom(a, b, i - 1)
BigLess(a, b) == BigLessFrom(a, b, NumLimbs)

Digit(a, i) == IF i >= 1 /\ i <= NumLimbs THEN a[i] ELSE 0

\* a * 2^s (the result fits) and floor(a / 2^s)
BigShl(a, s) ==
  LET q == s \div LimbBits
      r == s % LimbBits
  IN [i \in 1 .. NumLimbs |->
        ((Digit(a, i - q) * Pow2(r)) % LimbBase)
          + ((Digit(a, i - q - 1) * Pow2(r)) \div LimbBase)]
BigShr(a, s) ==
  LET q == s \div LimbBits
      r == s % LimbBits
  IN [i \in 1 .. NumLimbs |->
        (Digit(a, i + q) \div Pow2(r))
          + ((Digit(a, i + q + 1) % Pow2(r)) * Pow2(LimbBits - r))]

RECURSIVE BitsOf(_)
BitsOf(n) == IF n = 0 THEN 0 ELSE 1 + BitsOf(n \div 2)
RECURSIVE BitLenFrom(_, _)
BitLenFrom(a, i) ==
  IF i = 0 THEN 0
  ELSE IF a[i] # 0 THEN (i - 1) * LimbBits + BitsOf(a[i])
  ELSE BitLenFrom(a, i - 1)
\* The number of binary digits of a.
BitLen(a) == BitLenFrom(a, NumLimbs)

\* a * t, for a digit t
BigMulDigit(a, t) == CarryFrom([i \in 1 .. NumLimbs |-> a[i] * t], 1, 0)

\* The largest digit t, built from t by setting bits from 2^k down, with
\* d * t <= r.
RECURSIVE QuotientDigit(_, _, _, _)
QuotientDigit(r, d, k, t) ==
  IF k < 0 THEN t
  ELSE IF BigLess(r, BigMulDigit(d, t + Pow2(k)))
    THEN QuotientDigit(r, d, k - 1, t)
    ELSE QuotientDigit(r, d, k - 1, t + Pow2(k))

\* [q, r]: quotient and remainder of r by d, for a quotient of at most j
\* digits, long division from digit j down.
RECURSIVE BigDivFrom(_, _, _, _)
BigDivFrom(r, d, j, q) ==
  IF j = 0 THEN [q |-> q, r |-> r]
  ELSE LET dj == BigShl(d, LimbBits * (j - 1))
           t == QuotientDigit(r, dj, LimbBits - 1, 0)
       IN BigDivFrom(BigSub(r, BigMulDigit(dj, t)), d, j - 1, [q EXCEPT ![j] = t])

\* A double is zero or (-1)^neg * m * 2^e with 2^52 <= m < 2^53.
FZero == [neg |-> FALSE, m |-> BigZero, e |-> 0]
IsZero(x) == x.m = BigZero

\* The double nearest to (-1)^neg * (n + t) * 2^e, ties to even, where
\* 0 <= t < 1 and `sticky` tells whether t > 0.
RoundToDouble(neg, n, e, sticky) ==
  LET len == BitLen(n)
  IN IF len = 0 THEN FZero
     ELSE IF len <= SignificandBits
       THEN [neg |-> neg, m |-> BigShl(n, SignificandBits - len),
             e |-> e - (SignificandBits - len)]
     ELSE LET s == len - SignificandBits
              q == BigShr(n, s)
              rem == BigSub(n, BigShl(q, s))
              half == BigShl(BigOf(1), s - 1)
              up == \/ BigLess(half, rem)
                    \/ rem = half /\ (sticky \/ q[1] % 2 = 1)
              q1 == IF up THEN BigAdd(q, BigOf(1)) ELSE q
          IN IF BitLen(q1) > SignificandBits
               THEN [neg |-> neg, m |-> BigShr(q1, 1), e |-> e + s + 1]
               ELSE [neg |-> neg, m |-> q1, e |-> e + s]

\* An integer of magnitude below 2^28 as a double.
FOfInt(n) == RoundToDouble(n < 0, BigOf(IF n < 0 THEN -n ELSE n), 0, FALSE)

FNeg(x) == IF IsZero(x) THEN x ELSE [x EXCEPT !.neg = ~ x.neg]

\* x * y
FMul(x, y) ==
  IF IsZero(x) \/ IsZero(y) THEN FZero
  ELSE RoundToDouble(x.neg # y.neg, BigMul(x.m, y.m), x.e + y.e, FALSE)

\* x / y, for y # 0
FDiv(x, y) ==
  IF IsZero(x) THEN FZero
  ELSE LET d == BigDivFrom(BigShl(x.m, 55), y.m, 4, BigZero)
       IN RoundToDouble(x.neg # y.neg, d.q, x.e - y.e - 55, d.r # BigZero)

\* |x| < |y|
MagLess(x, y) ==
  IF IsZero(y) THEN FALSE
  ELSE IF IsZero(x) THEN TRUE
  ELSE IF x.e # y.e THEN x.e < y.e
  ELSE BigLess(x.m, y.m)

\* x + y
FAdd(x, y) ==
  IF IsZero(x) THEN y
  ELSE IF IsZero(y) THEN x
  ELSE LET big == IF MagLess(x, y) THEN y ELSE x
           small == IF MagLess(x, y) THEN x ELSE y
           d == big.e - small.e
       IN IF d > 58 THEN big
          ELSE LET a == BigShl(big.m, d)
                   n == IF big.neg = small.neg THEN BigAdd(a, small.m)
                        ELSE BigSub(a, small.m)
               IN RoundToDouble(big.neg, n, small.e, FALSE)

FSub(x, y) == FAdd(x, FNeg(y))

\* x < y
FLess(x, y) ==
  IF IsZero(x) /\ IsZero(y) THEN FALSE
  ELSE IF IsZero(x) THEN ~ y.neg
  ELSE IF IsZero(y) THEN x.neg
  ELSE IF x.neg # y.neg THEN x.neg
  ELSE IF x.neg THEN MagLess(y, x)
  ELSE MagLess(x, y)

FMin(x, y) == IF FLess(y, x) THEN y ELSE x
FMax(x, y) == IF FLess(x, y) THEN y ELSE x
FAbs(x) == [x EXCEPT !.neg = FALSE]

\* Math.floor(x), for |x| < 2^28
FFloor(x) ==
  IF IsZero(x) THEN 0
  ELSE LET whole == IF x.e >= 0 THEN BigShl(x.m, x.e) ELSE BigShr(x.m, -x.e)
           exact == x.e >= 0 \/ BigShl(whole, -x.e) = x.m
           n == whole[1] + whole[2] * LimbBase
       IN IF ~ x.neg THEN n ELSE IF exact THEN -n ELSE -n - 1

\* Math.ceil(x), for |x| < 2^28
FCeil(x) == - FFloor(FNeg(x))

\* The double nearest to n / d.
Dec(n, d) == FDiv(FOfInt(n), FOfInt(d))

VARIABLES
  grid,                     \* React state `grid`: the canonical grid
  gridRef,                  \* gridRef.current: the snapshot the handlers read
  selectedColorIndexRef,    \* selectedColorIndexRef.current
  brushSizeRef,             \* brushSizeRef.current
  zoomRef,                  \* zoomRef.current, in thousandths
  panRef,                   \* panRef.current
  evCache,                  \* evCache.current: the pointers that are down
  prevDiff,                 \* prevDiff.current: pinch baseline, -1 when unset
  lastPointerPos,           \* lastPointerPos.current
  totalDragDistance,        \* totalDragDistance.current
  isDraggingRef,
  isPaintingRef,
  isPanningRef,
  paintedCellsInStrokeRef,  \* paintedCellsInStrokeRef.current
  zoomChanges,              \* how many pinch steps have changed the viewport
  gesture,                  \* history of the gesture in progress
  done,                     \* history: how the last finished gesture ended
  brushCall,                \* one call of the brush-area computation and its result
  completionTimeoutRef,     \* the debounce timers of the completion pass that are live
  completedPercent,         \* React state `completedPercent`
  completedColors,          \* React state `completedColors`
  hiddenColors,             \* React state `hiddenColors`
  showCompletionMessage,    \* React state `showCompletionMessage`
  projectCompleted,         \* project.completed === true
  feedback,                 \* history of the completion pass and the feedback it gave
  containerSizeRef,         \* containerSizeRef.current
  dirtyFlags,               \* dirtyFlags.current
  redrawn,                  \* history: the flags whose layer group this step redrew
  pixiReady,                \* initPixi has run: the renderer exists, its loop runs
  viewCall,                 \* one call of a viewport computation on doubles and its result
  mounted,                  \* the Workspace component is mounted
  initPending,              \* initPixi is suspended at `await app.init(...)`
  appRef,                   \* appRef.current: "null" or "app"
  rafIdRef,                 \* rafIdRef.current: 0 until the first requestAnimationFrame
  frameRequested,           \* the browser holds a requested frame of the render loop
  filledGraphics,           \* the opaque fill layer: the colour drawn last on each cell
  incorrectFilledGraphics,  \* the tint fill layer: the colour drawn last on each cell
  saveTimers,               \* the live 1000 ms timers of saveProject, oldest first
  storage                   \* localStorage["pixelpaint_projects"], parsed

\* The lifetime of the component and of its renderer, the save timers and
\* the project store.
lifeVars == << mounted, initPending, appRef, rafIdRef, frameRequested, filledGraphics,
              incorrectFilledGraphics, saveTimers, storage >>

\* The state of the progress tracker, and what it persists to.
progressVars == << completionTimeoutRef, completedPercent, completedColors, hiddenColors,
                   showCompletionMessage, projectCompleted, feedback, lifeVars >>

\* The container, the dirty flags and the renderer.
viewVars == << containerSizeRef, dirtyFlags, redrawn, pixiReady, viewCall >>

vars == << grid, gridRef, selectedColorIndexRef, brushSizeRef, zoomRef, panRef,
           evCache, prevDiff, lastPointerPos, totalDragDistance, isDraggingRef,
           isPaintingRef, isPanningRef, paintedCellsInStrokeRef, zoomChanges,
           gesture, done, brushCall, completionTimeoutRef, completedPercent,
           completedColors, hiddenColors, showCompletionMessage, projectCompleted,
           feedback, containerSizeRef, dirtyFlags, redrawn, pixiReady, viewCall,
           mounted, initPending, appRef, rafIdRef, frameRequested, filledGraphics,
           incorrectFilledGraphics, saveTimers, storage >>

(***************************************************************************)
(* screenToGrid                                                            *)
(***************************************************************************)
NoCell == [col |-> -1, row |-> -1, index |-> -1]

ScreenToGridAt(pan, zoom, clientX, clientY) ==
  LET col == ((clientX - pan.x) * ZoomUnit) \div (zoom * BASE_CELL_SIZE)
      row == ((clientY - pan.y) * ZoomUnit) \div (zoom * BASE_CELL_SIZE)
  IN IF col >= 0 /\ col < Width /\ row >= 0 /\ row < Height
       THEN [col |-> col, row |-> row, index |-> row * Width + col]
       ELSE NoCell

screenToGrid(clientX, clientY) == ScreenToGridAt(panRef, zoomRef, clientX, clientY)

(***************************************************************************)
(* The brush engine                                                        *)
(***************************************************************************)
\* The setGrid updater of fillCellAtIndex: writes the handler's snapshot of
\* the cell, with the selected colour applied, whatever prev holds there.
FillCellUpdater(prev, index, cell, selectedColor) ==
  [prev EXCEPT ![index] = Cell(cell.colorIndex, TRUE, selectedColor)]

\* fillCellAtIndex without its first early return (the cell already holds the
\* selected colour).
fillCellAtIndex_RepaintsSameColour(g, index, painting) ==
  LET cell == gridRef[index]
      selectedColor == selectedColorIndexRef
  IN IF cell.filled /\ cell.filledColorIndex = cell.colorIndex
       THEN [ret |-> FALSE, grid |-> g, calls |-> 0]
     ELSE IF painting
       THEN [ret |-> TRUE, grid |-> g, calls |-> 0]
     ELSE [ret |-> TRUE,
           grid |-> FillCellUpdater(g, index, cell, selectedColor),
           calls |-> 1]

\* fillCellAtIndex without the early return taken during a paint stroke.
fillCellAtIndex_CommitsWhilePainting(g, index, painting) ==
  LET cell == gridRef[index]
      selectedColor == selectedColorIndexRef
  IN IF cell.filledColorIndex = selectedColor
       THEN [ret |-> FALSE, grid |-> g, calls |-> 0]
     ELSE IF cell.filled /\ cell.filledColorIndex = cell.colorIndex
       THEN [ret |-> FALSE, grid |-> g, calls |-> 0]
     ELSE [ret |-> TRUE,
           grid |-> FillCellUpdater(g, index, cell, selectedColor),
           calls |-> 1]

\* fillCellAtIndex: [ret, grid, calls] = its return value, the canonical grid
\* after it and the number of setGrid calls it made.  `painting` is the value
\* of isPaintingRef.current at the call.
fillCellAtIndex(g, index, painting) ==
  LET cell == gridRef[index]
      selectedColor == selectedColorIndexRef
  IN IF cell.filledColorIndex = selectedColor
       THEN [ret |-> FALSE, grid |-> g, calls |-> 0]
     ELSE IF cell.filled /\ cell.filledColorIndex = cell.colorIndex
       THEN [ret |-> FALSE, grid |-> g, calls |-> 0]
     ELSE IF painting
       THEN [ret |-> TRUE, grid |-> g, calls |-> 0]
     ELSE [ret |-> TRUE,
           grid |-> FillCellUpdater(g, index, cell, selectedColor),
           calls |-> 1]

\* The bounds of the brush area without the clip at the right and bottom edge.
BrushBounds_Unclipped(centerCol, centerRow, brushSize, w, h) ==
  LET offset == IF brushSize % 2 = 0 THEN 0 ELSE brushSize \div 2
      startCol == Max(0, centerCol - offset)
      endCol == startCol + brushSize - 1
      startRow == Max(0, centerRow - offset)
      endRow == startRow + brushSize - 1
  IN [startCol |-> startCol, endCol |-> endCol, startRow |-> startRow, endRow |-> endRow]

\* The bounds of the brush area, as computed from the clicked cell.
BrushBounds(centerCol, centerRow, brushSize, w, h) ==
  LET offset == IF brushSize % 2 = 0 THEN 0 ELSE brushSize \div 2
      startCol == Max(0, centerCol - offset)
      endCol == Min(w - 1, startCol + brushSize - 1)
      startRow == Max(0, centerRow - offset)
      endRow == Min(h - 1, startRow + brushSize - 1)
  IN [startCol |-> startCol, endCol |-> endCol, startRow |-> startRow, endRow |-> endRow]

\* The cells the two nested loops visit, in visiting order.
BrushCells(centerCol, centerRow, brushSize, w, h) ==
  LET b == BrushBounds(centerCol, centerRow, brushSize, w, h)
      nc == b.endCol - b.startCol + 1
      nr == b.endRow - b.startRow + 1
  IN IF nc <= 0 \/ nr <= 0 THEN << >>
     ELSE [k \in 1 .. (nc * nr) |->
             [col |-> b.startCol + ((k - 1) % nc), row |-> b.startRow + ((k - 1) \div nc)]]

\* The index computed for each visited cell: row * width + col.
BrushVisit(centerCol, centerRow, brushSize, w, h) ==
  LET cells == BrushCells(centerCol, centerRow, brushSize, w, h)
  IN [k \in 1 .. Len(cells) |-> cells[k].row * w + cells[k].col]

SeqRange(s) == { s[k] : k \in 1 .. Len(s) }

\* The body of the loops of fillCellsWithBrush: of the visited indices, those
\* that are neither of the selected colour nor correct in the snapshot `ref`.
BrushFill(ref, selectedColor, visit) ==
  { index \in SeqRange(visit) :
      /\ ref[index].filledColorIndex # selectedColor
      /\ ~ IsCorrect(ref[index]) }

\* fillCellsWithBrush: the set of indices it returns.
fillCellsWithBrush(centerCol, centerRow) ==
  BrushFill(gridRef, selectedColorIndexRef,
            BrushVisit(centerCol, centerRow, brushSizeRef, Width, Height))

\* The updater without `filled: true` in the cell it writes.
BatchUpdater_KeepsFilledFlag(prev, indices, colorToFill) ==
  [i \in DOMAIN prev |->
     IF i \in indices /\ (~ prev[i].filled \/ prev[i].filledColorIndex # prev[i].colorIndex)
       THEN Cell(prev[i].colorIndex, prev[i].filled, colorToFill)
       ELSE prev[i]]

\* The setGrid updater shared by the multi-cell tap and the stroke commit.
BatchUpdater(prev, indices, colorToFill) ==
  [i \in DOMAIN prev |->
     IF i \in indices /\ (~ prev[i].filled \/ prev[i].filledColorIndex # prev[i].colorIndex)
       THEN Cell(prev[i].colorIndex, TRUE, colorToFill)
       ELSE prev[i]]

\* handleTap: [grid, calls] = the canonical grid after it and the number of
\* setGrid calls it made.
handleTap(g, clientX, clientY) ==
  LET result == screenToGrid(clientX, clientY)
  IN IF result.index = -1 THEN [grid |-> g, calls |-> 0]
     ELSE IF brushSizeRef = 1
       THEN LET r == fillCellAtIndex(g, result.index, isPaintingRef)
            IN [grid |-> r.grid, calls |-> r.calls]
     ELSE LET filledIndices == fillCellsWithBrush(result.col, result.row)
          IN IF Cardinality(filledIndices) > 0
               THEN [grid |-> BatchUpdater(g, filledIndices, selectedColorIndexRef),
                     calls |-> 1]
               ELSE [grid |-> g, calls |-> 0]

\* handleTap on the cell (col,row) of a grid g of w x h cells that the
\* handlers see as it is: the canonical grid after the tap.
handleTapOn(g, w, h, col, row, brushSize, selectedColor) ==
  IF brushSize = 1
    THEN LET index == row * w + col
             cell == g[index]
         IN IF cell.filledColorIndex = selectedColor \/ IsCorrect(cell)
              THEN g
              ELSE FillCellUpdater(g, index, cell, selectedColor)
    ELSE LET visit == BrushVisit(col, row, brushSize, w, h)
         IN IF \E k \in 1 .. Len(visit) : visit[k] \notin DOMAIN g
              \* gridRef.current[index] is undefined there and reading its
              \* field throws: the tap ends without a setGrid call.
              THEN g
              ELSE LET filledIndices == BrushFill(g, selectedColor, visit)
                   IN IF Cardinality(filledIndices) > 0
                        THEN BatchUpdater(g, filledIndices, selectedColor)
                        ELSE g

isValidPaintStartCell(index) ==
  LET cell == gridRef[index]
  IN ~ cell.filled /\ cell.colorIndex = selectedColorIndexRef

(***************************************************************************)
(* Gesture state                                                           *)
(***************************************************************************)
Pointer(id, pt) == [pointerId |-> id, clientX |-> pt[1], clientY |-> pt[2]]
Pos(x, y) == [x |-> x, y |-> y]

\* evCache.findIndex(ev => ev.pointerId === id): 0 when absent.
FindIndex(cache, id) ==
  IF \E k \in 1 .. Len(cache) : cache[k].pointerId = id
    THEN CHOOSE k \in 1 .. Len(cache) :
           /\ cache[k].pointerId = id
           /\ \A j \in 1 .. (k - 1) : cache[j].pointerId # id
    ELSE 0

\* evCache.splice(k, 1)
Splice(cache, k) == [j \in 1 .. (Len(cache) - 1) |-> IF j < k THEN cache[j] ELSE cache[j + 1]]

\* The clamp of a zoom request without its upper limit.
Clamp_NoUpperLimit(z) == Max(MIN_ZOOM, z)

\* Math.max(MIN_ZOOM, Math.min(z, MAX_ZOOM))
Clamp(z) == Max(MIN_ZOOM, Min(z, MAX_ZOOM))

\* Pointer ids are opaque to the handlers: a new pointer takes the smallest
\* id that is not down.
FreshId(id) ==
  /\ FindIndex(evCache, id) = 0
  /\ \A j \in PointerIds : j < id => FindIndex(evCache, j) > 0

\* The gesture mode the refs encode.
Mode ==
  IF isPaintingRef THEN "Paint"
  ELSE IF isPanningRef THEN "Pan"
  ELSE IF Len(evCache) >= 2 THEN "Pinch"
  ELSE IF Len(evCache) = 0 THEN "Idle"
  ELSE "None"

CellType == [colorIndex : Colors, filled : BOOLEAN, filledColorIndex : Colors \cup {Undefined}]

\* History of a gesture: whether its first pointer-down entered Paint, every
\* index it put into the touched set, the setGrid calls made so far, and for
\* every cell the colour of the last immediatelyDrawFilledCell call made for
\* it in the gesture (Undefined: none).
NoGesture == [paint |-> FALSE, touched |-> {}, updates |-> 0,
              drawn |-> [i \in Indices |-> Undefined]]
\* History of the last finished gesture: how it ended, whether it had entered
\* Paint, its setGrid calls, and the cell under the release point (-1: none).
NotDone == [kind |-> "none", paint |-> FALSE, updates |-> 0, index |-> -1]
NoBrushCall == [width |-> 0, height |-> 0, centerCol |-> 0, centerRow |-> 0,
                brushSize |-> 0, returned |-> FALSE, cells |-> << >>, visited |-> << >>,
                before |-> << >>, after |-> << >>]

\* History of the progress tracker: how often the overall "done" feedback and
\* each colour's completion animation were given, the renders of a changed
\* grid since the last completion pass, the completion passes since the last
\* such render, and the number of such renders the last pass covered.
NoFeedback == [done |-> 0, animated |-> [c \in Colors |-> 0], changes |-> 0, passes |-> 0,
               batch |-> 0]

\* The colours all of whose cells are correct in g.
CompleteColors(g) ==
  { c \in Colors : TotalOfColor(g, c) > 0 /\ FilledOfColor(g, c) = TotalOfColor(g, c) }

\* The puzzle is completed: every cell is correct.
IsCompleted(g) == CorrectlyFilled(g) = Cardinality(DOMAIN g) /\ Cardinality(DOMAIN g) > 0

\* The effect without its second loop, the search from the start.
NextAvailableColorIn_NoWrap(paletteLength, hidden, selected) ==
  LET after == { i \in 0 .. (paletteLength - 1) : i > selected /\ i \notin hidden }
  IN IF selected \in hidden /\ after # {}
       THEN CHOOSE i \in after : \A j \in after : i <= j
       ELSE selected

\* The effect that replaces a hidden selected colour: the next colour after it
\* that is not hidden, else the first one before it, else the colour itself.
\* for a palette of paletteLength colours.
NextAvailableColorIn(paletteLength, hidden, selected) ==
  LET after == { i \in 0 .. (paletteLength - 1) : i > selected /\ i \notin hidden }
      before == { i \in 0 .. (paletteLength - 1) : i < selected /\ i \notin hidden }
      least(S) == CHOOSE i \in S : \A j \in S : i <= j
  IN IF selected \notin hidden THEN selected
     ELSE IF after # {} THEN least(after)
     ELSE IF before # {} THEN least(before)
     ELSE selected

NextAvailableColor(hidden, selected) == NextAvailableColorIn(NumColors, hidden, selected)

\* The component just mounted: no renderer yet, no save timer, and (until a
\* run says otherwise) an empty project store.
LifeAtMount ==
  /\ mounted = TRUE
  /\ initPending = FALSE
  /\ appRef = "null"
  /\ rafIdRef = 0
  /\ frameRequested = FALSE
  /\ filledGraphics = [i \in Indices |-> Undefined]
  /\ incorrectFilledGraphics = [i \in Indices |-> Undefined]
  /\ saveTimers = << >>
  /\ storage = << >>

\* The progress tracker once the mount effects have run on the opened grid:
\* complete colours are hidden, the first completion pass is scheduled, and
\* the saved project carries the completed flag of its grid.
ProgressAtMount ==
  /\ LifeAtMount
  /\ completionTimeoutRef = 1
  /\ completedPercent = 0
  /\ completedColors = CompleteColors(grid)
  /\ hiddenColors = CompleteColors(grid)
  /\ showCompletionMessage = FALSE
  /\ projectCompleted = IsCompleted(grid)
  /\ feedback = NoFeedback

\* The layer groups of the renderer and the dirty flag of each.
Flags == {"filled", "highlight", "text", "transform"}
Size(w, h) == [width |-> w, height |-> h]

\* dirtyFlags.current with the flags of `set` assigned true.
MarkDirty(flags, set) == [f \in Flags |-> flags[f] \/ f \in set]

\* No viewport computation is being watched.
NoViewCall == [op |-> "none", returned |-> FALSE]

\* The refs as the component creates them; initPixi has not run yet.
ViewAtMount ==
  /\ containerSizeRef = Size(800, 600)
  /\ dirtyFlags = [f \in Flags |-> TRUE]
  /\ redrawn = {}
  /\ pixiReady = FALSE
  /\ viewCall = NoViewCall

TypeOK ==
  /\ grid \in [Indices -> CellType]
  /\ gridRef \in [Indices -> CellType]
  /\ selectedColorIndexRef \in Colors
  /\ brushSizeRef \in BrushSizes
  /\ zoomRef \in MIN_ZOOM .. MAX_ZOOM
  /\ Len(evCache) <= Cardinality(PointerIds)
  /\ isDraggingRef \in BOOLEAN /\ isPaintingRef \in BOOLEAN /\ isPanningRef \in BOOLEAN
  /\ paintedCellsInStrokeRef \subseteq Indices
  /\ totalDragDistance \in 0 .. MaxDrag
  /\ zoomChanges \in 0 .. MaxZoomChanges
  /\ gesture.touched \subseteq Indices
  /\ gesture.drawn \in [Indices -> Colors \cup {Undefined}]
  /\ done.index \in Indices \cup {-1}
  /\ mounted \in BOOLEAN /\ initPending \in BOOLEAN /\ frameRequested \in BOOLEAN
  /\ appRef \in {"null", "app"}
  /\ rafIdRef \in {0, 1}
  /\ filledGraphics \in [Indices -> Colors \cup {Undefined}]
  /\ incorrectFilledGraphics \in [Indices -> Colors \cup {Undefined}]

Init ==
  /\ grid = ProjectGrid
  /\ gridRef = ProjectGrid
  /\ selectedColorIndexRef = 0
  /\ brushSizeRef = 1
  /\ zoomRef = ZoomUnit
  /\ panRef = Pos(0, 0)
  /\ evCache = << >>
  /\ prevDiff = -1
  /\ lastPointerPos = Pos(0, 0)
  /\ totalDragDistance = 0
  /\ isDraggingRef = FALSE
  /\ isPaintingRef = FALSE
  /\ isPanningRef = FALSE
  /\ paintedCellsInStrokeRef = {}
  /\ zoomChanges = 0
  /\ gesture = NoGesture
  /\ done = NotDone
  /\ brushCall = NoBrushCall
  /\ ProgressAtMount
  /\ ViewAtMount

(***************************************************************************)
(* handlePointerDown                                                       *)
(***************************************************************************)
\* The touched set after the first pointer went down on a valid start cell.
PaintStartCells(result) ==
  IF brushSizeRef = 1
    THEN {result.index}
    ELSE fillCellsWithBrush(result.col, result.row)

\* The cells for which a paint step on the cell `result` calls
\* immediatelyDrawFilledCell, always with the selected colour.
immediatelyDrawn(result) ==
  IF brushSizeRef = 1
    THEN IF fillCellAtIndex(grid, result.index, TRUE).ret THEN {result.index} ELSE {}
    ELSE fillCellsWithBrush(result.col, result.row)

\* The history of the immediate draws after `cells` were drawn.
DrawnWith(drawn, cells) ==
  [i \in Indices |-> IF i \in cells THEN selectedColorIndexRef ELSE drawn[i]]

\* Whether the first pointer, going down at pt, starts a Paint stroke.
StartsPaint(pt) ==
  LET result == screenToGrid(pt[1], pt[2])
  IN result.index # -1 /\ isValidPaintStartCell(result.index)

\* handlePointerDown with the modes reset for the first pointer only.
PointerDown_KeepsMode(id, pt) ==
  /\ FreshId(id)
  /\ evCache' = Append(evCache, Pointer(id, pt))
  /\ isDraggingRef' = TRUE
  /\ lastPointerPos' = Pos(pt[1], pt[2])
  /\ IF Len(evCache) = 0
       THEN /\ totalDragDistance' = 0
            /\ isPaintingRef' = StartsPaint(pt)
            /\ isPanningRef' = ~ StartsPaint(pt)
            /\ paintedCellsInStrokeRef' =
                 IF StartsPaint(pt) THEN PaintStartCells(screenToGrid(pt[1], pt[2])) ELSE {}
            /\ gesture' = [paint |-> StartsPaint(pt),
                           touched |-> paintedCellsInStrokeRef',
                           updates |-> 0,
                           drawn |-> IF StartsPaint(pt)
                                       THEN DrawnWith(NoGesture.drawn,
                                              immediatelyDrawn(screenToGrid(pt[1], pt[2])))
                                       ELSE NoGesture.drawn]
            /\ done' = NotDone
       ELSE UNCHANGED << isPaintingRef, isPanningRef, paintedCellsInStrokeRef,
                         totalDragDistance, gesture, done >>
  /\ UNCHANGED << grid, gridRef, selectedColorIndexRef, brushSizeRef, zoomRef, panRef,
                  prevDiff, zoomChanges, brushCall >>

PointerDown(id, pt) ==
  /\ FreshId(id)
  /\ evCache' = Append(evCache, Pointer(id, pt))
  /\ isDraggingRef' = TRUE
  /\ lastPointerPos' = Pos(pt[1], pt[2])
  /\ IF Len(evCache) = 0
       THEN /\ totalDragDistance' = 0
            /\ isPaintingRef' = StartsPaint(pt)
            /\ isPanningRef' = ~ StartsPaint(pt)
            /\ paintedCellsInStrokeRef' =
                 IF StartsPaint(pt) THEN PaintStartCells(screenToGrid(pt[1], pt[2])) ELSE {}
            /\ gesture' = [paint |-> StartsPaint(pt),
                           touched |-> paintedCellsInStrokeRef',
                           updates |-> 0,
                           drawn |-> IF StartsPaint(pt)
                                       THEN DrawnWith(NoGesture.drawn,
                                              immediatelyDrawn(screenToGrid(pt[1], pt[2])))
                                       ELSE NoGesture.drawn]
            /\ done' = NotDone
       ELSE /\ isPaintingRef' = FALSE
            /\ isPanningRef' = FALSE
            /\ paintedCellsInStrokeRef' = {}
            /\ UNCHANGED << totalDragDistance, gesture, done >>
  /\ UNCHANGED << grid, gridRef, selectedColorIndexRef, brushSizeRef, zoomRef, panRef,
                  prevDiff, zoomChanges, brushCall >>

(***************************************************************************)
(* handlePointerMove                                                       *)
(***************************************************************************)
\* Two pointers down: cancel Paint/Pan, zoom about the pinch centre.
PinchMove(cache) ==
  LET p1 == cache[1]
      p2 == cache[2]
      curDiff == Hypot(p1.clientX - p2.clientX, p1.clientY - p2.clientY)
      pinchCenterX == (p1.clientX + p2.clientX) \div 2
      pinchCenterY == (p1.clientY + p2.clientY) \div 2
      delta == curDiff - prevDiff
      newZoom == Clamp((zoomRef * (ZoomUnit + delta * 5)) \div ZoomUnit)
  IN /\ isPaintingRef' = FALSE
     /\ isPanningRef' = FALSE
     /\ IF prevDiff > 0
          THEN /\ zoomChanges < MaxZoomChanges
               /\ zoomChanges' = zoomChanges + 1
               /\ panRef' = Pos(pinchCenterX - ((pinchCenterX - panRef.x) * newZoom) \div zoomRef,
                                pinchCenterY - ((pinchCenterY - panRef.y) * newZoom) \div zoomRef)
               /\ zoomRef' = newZoom
          ELSE UNCHANGED << panRef, zoomRef, zoomChanges >>
     /\ prevDiff' = curDiff
     /\ UNCHANGED << grid, paintedCellsInStrokeRef, lastPointerPos, totalDragDistance,
                     gesture >>

\* One pointer down, Paint mode: fill the cells under the pointer.
PaintMove(pt) ==
  LET result == screenToGrid(pt[1], pt[2])
      dx == pt[1] - lastPointerPos.x
      dy == pt[2] - lastPointerPos.y
      fresh == result.index # -1 /\ result.index \notin paintedCellsInStrokeRef
      single == IF brushSizeRef = 1 /\ fresh
                  THEN fillCellAtIndex(grid, result.index, isPaintingRef)
                  ELSE [ret |-> FALSE, grid |-> grid, calls |-> 0]
      added == IF result.index = -1 THEN {}
               ELSE IF brushSizeRef = 1 THEN {result.index}
               ELSE fillCellsWithBrush(result.col, result.row)
      draws == IF result.index = -1 \/ (brushSizeRef = 1 /\ ~ fresh) THEN {}
               ELSE immediatelyDrawn(result)
  IN /\ totalDragDistance + Abs(dx) + Abs(dy) <= MaxDrag
     /\ paintedCellsInStrokeRef' = paintedCellsInStrokeRef \cup added
     /\ grid' = single.grid
     /\ gesture' = [gesture EXCEPT !.touched = @ \cup added, !.updates = @ + single.calls,
                                   !.drawn = DrawnWith(@, draws)]
     /\ totalDragDistance' = totalDragDistance + Abs(dx) + Abs(dy)
     /\ lastPointerPos' = Pos(pt[1], pt[2])
     /\ UNCHANGED << isPaintingRef, isPanningRef, panRef, zoomRef, zoomChanges, prevDiff >>

\* The zoom that fits the grid into a container, as initPixi and
\* handleCenter compute it.
FitZoom(size) ==
  LET margin == 40
      scaleX == ((size.width - margin) * ZoomUnit) \div (Width * BASE_CELL_SIZE)
      scaleY == ((size.height - margin) * ZoomUnit) \div (Height * BASE_CELL_SIZE)
  IN Clamp(Min(scaleX, scaleY))

\* The pan that centres the grid in a container at zoom newZoom.
FitPan(size, newZoom) ==
  Pos((size.width - (Width * BASE_CELL_SIZE * newZoom) \div ZoomUnit) \div 2,
      (size.height - (Height * BASE_CELL_SIZE * newZoom) \div ZoomUnit) \div 2)

\* Where the grid lies before a drag: centred in the container once the
\* renderer is initialised, at the origin before.
PanOrigin ==
  IF pixiReady THEN FitPan(containerSizeRef, FitZoom(containerSizeRef)) ELSE Pos(0, 0)

\* One pointer down, Pan mode: move the canvas.
PanMove(pt) ==
  LET dx == pt[1] - lastPointerPos.x
      dy == pt[2] - lastPointerPos.y
  IN /\ totalDragDistance + Abs(dx) + Abs(dy) <= MaxDrag
     /\ Abs(panRef.x + dx - PanOrigin.x) <= MaxPan
     /\ Abs(panRef.y + dy - PanOrigin.y) <= MaxPan
     /\ panRef' = Pos(panRef.x + dx, panRef.y + dy)
     /\ lastPointerPos' = Pos(pt[1], pt[2])
     /\ totalDragDistance' = totalDragDistance + Abs(dx) + Abs(dy)
     /\ UNCHANGED << grid, isPaintingRef, isPanningRef, paintedCellsInStrokeRef, zoomRef,
                     zoomChanges, prevDiff, gesture >>

\* The event is a move of a pointer that is down, or of a hovering pointer
\* while none is down.
PointerMove(id, pt) ==
  LET k == FindIndex(evCache, id)
      cache == IF k > 0 THEN [evCache EXCEPT ![k] = Pointer(id, pt)] ELSE evCache
  IN /\ k > 0 \/ Len(evCache) = 0
     /\ evCache' = cache
     /\ IF Len(cache) = 2 THEN PinchMove(cache)
        ELSE IF Len(cache) = 1 /\ isDraggingRef /\ isPaintingRef THEN PaintMove(pt)
        ELSE IF Len(cache) = 1 /\ isDraggingRef /\ isPanningRef THEN PanMove(pt)
        ELSE UNCHANGED << grid, isPaintingRef, isPanningRef, paintedCellsInStrokeRef,
                          lastPointerPos, totalDragDistance, panRef, zoomRef, zoomChanges,
                          prevDiff, gesture >>
     /\ UNCHANGED << gridRef, selectedColorIndexRef, brushSizeRef, isDraggingRef, done,
                     brushCall >>

(***************************************************************************)
(* handlePointerUp (also the pointer-leave and pointer-cancel handler)     *)
(***************************************************************************)
\* The batch commit at the end of a stroke: [grid, calls].
StrokeCommit(g) ==
  IF isPaintingRef /\ Cardinality(paintedCellsInStrokeRef) > 0
    THEN [grid |-> BatchUpdater(g, paintedCellsInStrokeRef, selectedColorIndexRef),
          calls |-> 1]
    ELSE [grid |-> g, calls |-> 0]

\* The tap without the drag-distance threshold.
TapOnRelease_AnyDistance(g, pt) ==
  IF isPanningRef
    THEN handleTap(g, pt[1], pt[2])
    ELSE [grid |-> g, calls |-> 0]

\* The tap at the end of a pan that hardly moved: [grid, calls].
TapOnRelease(g, pt) ==
  IF isPanningRef /\ totalDragDistance < TapThreshold
    THEN handleTap(g, pt[1], pt[2])
    ELSE [grid |-> g, calls |-> 0]

\* How the gesture that a release ends is recorded in the history.
Ending(calls, pt) ==
  [kind |-> IF isPaintingRef THEN "stroke"
            ELSE IF isPanningRef /\ totalDragDistance < TapThreshold THEN "tap"
            ELSE IF isPanningRef THEN "pan"
            ELSE IF gesture.paint THEN "cancelled"
            ELSE "other",
   paint |-> gesture.paint,
   updates |-> gesture.updates + calls,
   index |-> screenToGrid(pt[1], pt[2]).index]

\* The cache after the release, with splice called whatever findIndex gave:
\* splice(-1, 1) removes the last entry.
Released_Unguarded(cache, k) ==
  IF k > 0 THEN Splice(cache, k)
  ELSE IF Len(cache) > 0 THEN Splice(cache, Len(cache))
  ELSE cache

\* if (index > -1) evCache.current.splice(index, 1)
Released(cache, k) == IF k > 0 THEN Splice(cache, k) ELSE cache

\* The pinch baseline with the pointers of `cache` still down, left as it was.
BaselineAfterRelease_Kept(cache) == prevDiff

\* if (evCache.current.length < 2) prevDiff.current = -1
BaselineAfterRelease(cache) == IF Len(cache) < 2 THEN -1 ELSE prevDiff

\* `discrete`: the event is one React handles at discrete priority (pointerup,
\* pointercancel): the render of its setGrid and the effect copying the grid
\* into gridRef run before the next event.  For pointerleave they run later,
\* as SyncGridRef.
handlePointerUp(id, pt, discrete) ==
  LET k == FindIndex(evCache, id)
      cache == Released(evCache, k)
      committed == StrokeCommit(grid)
      tapped == TapOnRelease(committed.grid, pt)
      calls == committed.calls + tapped.calls
  IN /\ evCache' = cache
     /\ prevDiff' = BaselineAfterRelease(cache)
     /\ IF Len(cache) = 0
          THEN /\ isDraggingRef' = FALSE
               /\ grid' = tapped.grid
               /\ gridRef' = IF discrete /\ calls > 0 THEN tapped.grid ELSE gridRef
               /\ isPaintingRef' = FALSE
               /\ isPanningRef' = FALSE
               /\ paintedCellsInStrokeRef' = {}
               /\ gesture' = NoGesture
               /\ done' = IF Len(evCache) > 0 THEN Ending(calls, pt) ELSE done
               /\ UNCHANGED lastPointerPos
          ELSE /\ lastPointerPos' = IF Len(cache) = 1
                                      THEN Pos(cache[1].clientX, cache[1].clientY)
                                      ELSE lastPointerPos
               /\ UNCHANGED << isDraggingRef, grid, gridRef, isPaintingRef, isPanningRef,
                               paintedCellsInStrokeRef, gesture, done >>
     /\ UNCHANGED << selectedColorIndexRef, brushSizeRef, zoomRef, panRef,
                     totalDragDistance, zoomChanges, brushCall >>

PointerUp(id, pt) == handlePointerUp(id, pt, TRUE)
PointerLeave(id, pt) == handlePointerUp(id, pt, FALSE)
PointerCancel(id, pt) == handlePointerUp(id, pt, TRUE)

(***************************************************************************)
(* Palette, brush picker and the ref-synchronising effects                 *)
(***************************************************************************)
\* A palette button is clicked; the effect copies the state into the ref.
SelectColor(c) ==
  /\ c # selectedColorIndexRef
  /\ selectedColorIndexRef' = c
  /\ UNCHANGED << grid, gridRef, brushSizeRef, zoomRef, panRef, evCache, prevDiff,
                  lastPointerPos, totalDragDistance, isDraggingRef, isPaintingRef,
                  isPanningRef, paintedCellsInStrokeRef, zoomChanges, gesture, done,
                  brushCall >>

\* A brush button is clicked; the effect copies the state into the ref.
SetBrushSize(b) ==
  /\ b # brushSizeRef
  /\ brushSizeRef' = b
  /\ UNCHANGED << grid, gridRef, selectedColorIndexRef, zoomRef, panRef, evCache, prevDiff,
                  lastPointerPos, totalDragDistance, isDraggingRef, isPaintingRef,
                  isPanningRef, paintedCellsInStrokeRef, zoomChanges, gesture, done,
                  brushCall >>

\* The render after a setGrid made at continuous priority, and its effect:
\* gridRef.current = grid.
SyncGridRef ==
  /\ gridRef # grid
  /\ gridRef' = grid
  /\ UNCHANGED << grid, selectedColorIndexRef, brushSizeRef, zoomRef, panRef, evCache,
                  prevDiff, lastPointerPos, totalDragDistance, isDraggingRef, isPaintingRef,
                  isPanningRef, paintedCellsInStrokeRef, zoomChanges, gesture, done,
                  brushCall >>

(***************************************************************************)
(* The workspace driven by a mouse                                         *)
(***************************************************************************)
Next ==
  \/ \E id \in MousePointers, pt \in Pts :
        PointerDown(id, pt) /\ UNCHANGED << progressVars, viewVars >>
  \/ \E id \in MousePointers, pt \in Pts :
        PointerMove(id, pt) /\ UNCHANGED << progressVars, viewVars >>
  \/ \E id \in MousePointers, pt \in Pts :
        PointerUp(id, pt) /\ UNCHANGED << progressVars, viewVars >>
  \/ \E id \in MousePointers, pt \in Pts :
        PointerLeave(id, pt) /\ UNCHANGED << progressVars, viewVars >>
  \/ \E id \in MousePointers, pt \in Pts :
        PointerCancel(id, pt) /\ UNCHANGED << progressVars, viewVars >>
  \/ \E c \in Colors : SelectColor(c) /\ UNCHANGED << progressVars, viewVars >>
  \/ \E b \in BrushSizes : SetBrushSize(b) /\ UNCHANGED << progressVars, viewVars >>
  \/ SyncGridRef /\ UNCHANGED << progressVars, viewVars >>

Spec == Init /\ [][Next]_vars

(***************************************************************************)
(* The workspace driven by two fingers, colour and brush left as they are  *)
(***************************************************************************)
\* The workspace with some brush size chosen, nothing painted and no pointer down.
InitTouch ==
  /\ grid = ProjectGrid
  /\ gridRef = ProjectGrid
  /\ selectedColorIndexRef = 0
  /\ brushSizeRef \in BrushSizes
  /\ zoomRef = ZoomUnit
  /\ panRef = Pos(0, 0)
  /\ evCache = << >>
  /\ prevDiff = -1
  /\ lastPointerPos = Pos(0, 0)
  /\ totalDragDistance = 0
  /\ isDraggingRef = FALSE
  /\ isPaintingRef = FALSE
  /\ isPanningRef = FALSE
  /\ paintedCellsInStrokeRef = {}
  /\ zoomChanges = 0
  /\ gesture = NoGesture
  /\ done = NotDone
  /\ brushCall = NoBrushCall
  /\ ProgressAtMount
  /\ ViewAtMount

NextTouch ==
  \/ \E id \in TouchPointers, pt \in TouchPts :
        PointerDown(id, pt) /\ UNCHANGED << progressVars, viewVars >>
  \/ \E id \in TouchPointers, pt \in TouchPts :
        PointerMove(id, pt) /\ UNCHANGED << progressVars, viewVars >>
  \/ \E id \in TouchPointers, pt \in TouchPts :
        PointerUp(id, pt) /\ UNCHANGED << progressVars, viewVars >>
  \/ \E id \in TouchPointers, pt \in TouchPts :
        PointerLeave(id, pt) /\ UNCHANGED << progressVars, viewVars >>
  \/ \E id \in TouchPointers, pt \in TouchPts :
        PointerCancel(id, pt) /\ UNCHANGED << progressVars, viewVars >>
  \/ SyncGridRef /\ UNCHANGED << progressVars, viewVars >>

SpecTouch == InitTouch /\ [][NextTouch]_vars

(***************************************************************************)
(* The brush-area computation on its own, over every small grid            *)
(***************************************************************************)
BrushInputs ==
  { [width |-> w, height |-> h, centerCol |-> c, centerRow |-> r, brushSize |-> b,
     returned |-> FALSE, cells |-> << >>, visited |-> << >>,
     before |-> ProjectGridOf(w, h), after |-> << >>] :
      w \in 1 .. MaxSide, h \in 1 .. MaxSide, c \in 0 .. (MaxSide - 1),
      r \in 0 .. (MaxSide - 1), b \in BrushSizes }

InitBrush ==
  /\ grid = ProjectGrid
  /\ gridRef = ProjectGrid
  /\ selectedColorIndexRef = 0
  /\ brushSizeRef = 1
  /\ zoomRef = ZoomUnit
  /\ panRef = Pos(0, 0)
  /\ evCache = << >>
  /\ prevDiff = -1
  /\ lastPointerPos = Pos(0, 0)
  /\ totalDragDistance = 0
  /\ isDraggingRef = FALSE
  /\ isPaintingRef = FALSE
  /\ isPanningRef = FALSE
  /\ paintedCellsInStrokeRef = {}
  /\ zoomChanges = 0
  /\ gesture = NoGesture
  /\ done = NotDone
  /\ brushCall \in { in \in BrushInputs : in.centerCol < in.width /\ in.centerRow < in.height }
  /\ ProgressAtMount
  /\ ViewAtMount

\* The loops of fillCellsWithBrush run over a grid none of whose cells is
\* skipped, and a tap with colour 0 is applied to that grid.
BrushCallReturns ==
  /\ ~ brushCall.returned
  /\ brushCall' = [brushCall EXCEPT
                     !.returned = TRUE,
                     !.cells = BrushCells(brushCall.centerCol, brushCall.centerRow,
                                          brushCall.brushSize, brushCall.width,
                                          brushCall.height),
                     !.visited = BrushVisit(brushCall.centerCol, brushCall.centerRow,
                                            brushCall.brushSize, brushCall.width,
                                            brushCall.height),
                     !.after = handleTapOn(brushCall.before, brushCall.width,
                                           brushCall.height, brushCall.centerCol,
                                           brushCall.centerRow, brushCall.brushSize, 0)]
  /\ UNCHANGED << grid, gridRef, selectedColorIndexRef, brushSizeRef, zoomRef, panRef,
                  evCache, prevDiff, lastPointerPos, totalDragDistance, isDraggingRef,
                  isPaintingRef, isPanningRef, paintedCellsInStrokeRef, zoomChanges,
                  gesture, done >>

NextBrush == BrushCallReturns /\ UNCHANGED << progressVars, viewVars >>

SpecBrush == InitBrush /\ [][NextBrush]_vars

(***************************************************************************)
(* The progress tracker: the debounced completion pass                     *)
(***************************************************************************)
\* The completion effect without the clearTimeout of the pass still pending.
ArmCompletionTimeout_KeepsPending(live) == Min(live + 1, MaxCount)

\* The completion effect runs: the pending timer is cleared, a new one is set.
ArmCompletionTimeout(live) == 1

\* The completion effect: it runs (`ran`) after a render in which the grid
\* has changed.
CompletionEffect(ran) ==
  /\ completionTimeoutRef' =
       IF ran THEN ArmCompletionTimeout(completionTimeoutRef) ELSE completionTimeoutRef
  /\ feedback' =
       IF ran THEN [feedback EXCEPT !.changes = Min(@ + 1, MaxCount), !.passes = 0]
              ELSE feedback
  /\ UNCHANGED << completedPercent, completedColors, hiddenColors, showCompletionMessage,
                  projectCompleted >>

\* The complete colours without the comparison with the previous pass.
NewlyCompleted_IgnoresPrevious(g, prevCompleted) == CompleteColors(g)

\* The colours that were not complete at the previous pass and are now.
NewlyCompleted(g, prevCompleted) == CompleteColors(g) \ prevCompleted

\* The overall "done" feedback is due: the puzzle is completed and the opened
\* project was not.
DoneFeedbackDue(g) == IsCompleted(g) /\ ~ projectCompleted

\* A debounce timer fires: the completion pass over the grid of the render
\* that set it, followed by the effect that replaces a hidden selected colour.
CompletionTimeout ==
  LET g == gridRef
      newlyCompleted == NewlyCompleted(g, completedColors)
  IN /\ completionTimeoutRef > 0
     /\ completionTimeoutRef' = completionTimeoutRef - 1
     /\ completedPercent' = Percent(g)
     /\ completedColors' = CompleteColors(g)
     /\ hiddenColors' = hiddenColors \cup newlyCompleted
     /\ showCompletionMessage' = (DoneFeedbackDue(g) \/ showCompletionMessage)
     /\ feedback' =
          [done |-> IF DoneFeedbackDue(g) THEN Min(feedback.done + 1, MaxCount)
                    ELSE feedback.done,
           animated |-> [c \in Colors |->
                           IF c \in newlyCompleted
                             THEN Min(feedback.animated[c] + 1, MaxCount)
                             ELSE feedback.animated[c]],
           changes |-> 0,
           passes |-> Min(feedback.passes + 1, MaxCount),
           batch |-> feedback.changes]
     /\ selectedColorIndexRef' = NextAvailableColor(hiddenColors', selectedColorIndexRef)
     /\ UNCHANGED << grid, gridRef, brushSizeRef, zoomRef, panRef, evCache, prevDiff,
                     lastPointerPos, totalDragDistance, isDraggingRef, isPaintingRef,
                     isPanningRef, paintedCellsInStrokeRef, zoomChanges, gesture, done,
                     brushCall, projectCompleted, viewVars >>

\* The timer set with the "done" feedback hides the completion message.
HideCompletionMessage ==
  /\ showCompletionMessage
  /\ showCompletionMessage' = FALSE
  /\ UNCHANGED << grid, gridRef, selectedColorIndexRef, brushSizeRef, zoomRef, panRef,
                  evCache, prevDiff, lastPointerPos, totalDragDistance, isDraggingRef,
                  isPaintingRef, isPanningRef, paintedCellsInStrokeRef, zoomChanges,
                  gesture, done, brushCall, completionTimeoutRef, completedPercent,
                  completedColors, hiddenColors, projectCompleted, feedback, viewVars >>

\* A release handled at discrete priority has made a setGrid call: its render
\* and the effects on the new grid run before the next event.
RenderedAfterRelease ==
  Len(evCache) = 1 /\ Len(evCache') = 0 /\ done'.updates > 0

\* The grids a saved project can be opened with: each cell unfilled, correct,
\* or filled with the colour after its target.
SavedGrids ==
  { g \in [Indices -> CellType] :
      \A i \in Indices :
        /\ g[i].colorIndex = ProjectGrid[i].colorIndex
        /\ g[i].filled = (g[i].filledColorIndex # Undefined)
        /\ g[i].filledColorIndex \in
             {Undefined, g[i].colorIndex, (g[i].colorIndex + 1) % NumColors} }

\* A saved project is opened with the one-cell brush; a hidden colour 0 has
\* been replaced by the mount effects.
InitProgress ==
  /\ grid \in SavedGrids
  /\ gridRef = grid
  /\ selectedColorIndexRef = NextAvailableColor(CompleteColors(grid), 0)
  /\ brushSizeRef = 1
  /\ zoomRef = ZoomUnit
  /\ panRef = Pos(0, 0)
  /\ evCache = << >>
  /\ prevDiff = -1
  /\ lastPointerPos = Pos(0, 0)
  /\ totalDragDistance = 0
  /\ isDraggingRef = FALSE
  /\ isPaintingRef = FALSE
  /\ isPanningRef = FALSE
  /\ paintedCellsInStrokeRef = {}
  /\ zoomChanges = 0
  /\ gesture = NoGesture
  /\ done = NotDone
  /\ brushCall = NoBrushCall
  /\ ProgressAtMount
  /\ ViewAtMount

NextProgress ==
  \/ \E id \in MousePointers, pt \in CellPts : PointerDown(id, pt) /\ CompletionEffect(FALSE) /\ UNCHANGED << viewVars, lifeVars >>
  \/ \E id \in MousePointers, pt \in CellPts : PointerMove(id, pt) /\ CompletionEffect(FALSE) /\ UNCHANGED << viewVars, lifeVars >>
  \/ \E id \in MousePointers, pt \in CellPts :
        PointerUp(id, pt) /\ CompletionEffect(RenderedAfterRelease)
        /\ UNCHANGED << viewVars, lifeVars >>
  \/ \E id \in MousePointers, pt \in CellPts : PointerLeave(id, pt) /\ CompletionEffect(FALSE) /\ UNCHANGED << viewVars, lifeVars >>
  \/ \E c \in Colors \ hiddenColors : SelectColor(c) /\ CompletionEffect(FALSE) /\ UNCHANGED << viewVars, lifeVars >>
  \/ SyncGridRef /\ CompletionEffect(TRUE) /\ UNCHANGED << viewVars, lifeVars >>
  \/ CompletionTimeout /\ UNCHANGED lifeVars
  \/ HideCompletionMessage /\ UNCHANGED lifeVars

SpecProgress == InitProgress /\ [][NextProgress]_vars

\* The browser fires a timer that stays set.
SpecProgressFair == SpecProgress /\ WF_vars(CompletionTimeout /\ UNCHANGED lifeVars)

(***************************************************************************)
(* The viewport: zoom controls, wheel, centring, resize                    *)
(***************************************************************************)
\* What the zoom controls, the wheel and the resize observer leave alone.
paintVars == << grid, gridRef, selectedColorIndexRef, brushSizeRef, evCache, prevDiff,
                lastPointerPos, totalDragDistance, isDraggingRef, isPaintingRef,
                isPanningRef, paintedCellsInStrokeRef, gesture, done, brushCall,
                viewCall >>

\* The "+" button.
zoomIn ==
  LET centerX == containerSizeRef.width \div 2
      centerY == containerSizeRef.height \div 2
      newZoom == Min((zoomRef * 12) \div 10, MAX_ZOOM)
  IN /\ zoomChanges < MaxZoomChanges
     /\ zoomChanges' = zoomChanges + 1
     /\ panRef' = Pos(centerX - ((centerX - panRef.x) * newZoom) \div zoomRef,
                      centerY - ((centerY - panRef.y) * newZoom) \div zoomRef)
     /\ zoomRef' = newZoom
     /\ dirtyFlags' = MarkDirty(dirtyFlags, {"text", "transform"})
     /\ redrawn' = {}
     /\ UNCHANGED << paintVars, containerSizeRef, pixiReady >>

\* The "-" button.
zoomOut ==
  LET centerX == containerSizeRef.width \div 2
      centerY == containerSizeRef.height \div 2
      newZoom == Max((zoomRef * 10) \div 12, MIN_ZOOM)
  IN /\ zoomChanges < MaxZoomChanges
     /\ zoomChanges' = zoomChanges + 1
     /\ panRef' = Pos(centerX - ((centerX - panRef.x) * newZoom) \div zoomRef,
                      centerY - ((centerY - panRef.y) * newZoom) \div zoomRef)
     /\ zoomRef' = newZoom
     /\ dirtyFlags' = MarkDirty(dirtyFlags, {"text", "transform"})
     /\ redrawn' = {}
     /\ UNCHANGED << paintVars, containerSizeRef, pixiReady >>

\* A wheel event at (mouseX, mouseY); deltaYPositive: e.deltaY > 0.
handleWheel(mouseX, mouseY, deltaYPositive) ==
  LET zoomFactor == IF deltaYPositive THEN 900 ELSE 1100
      newZoom == Clamp((zoomRef * zoomFactor) \div ZoomUnit)
  IN /\ zoomChanges < MaxZoomChanges
     /\ zoomChanges' = zoomChanges + 1
     /\ panRef' = Pos(mouseX - ((mouseX - panRef.x) * newZoom) \div zoomRef,
                      mouseY - ((mouseY - panRef.y) * newZoom) \div zoomRef)
     /\ zoomRef' = newZoom
     /\ dirtyFlags' = MarkDirty(dirtyFlags, {"text", "transform"})
     /\ redrawn' = {}
     /\ UNCHANGED << paintVars, containerSizeRef, pixiReady >>

\* The "centre" button: fit the grid into the container.
handleCenter ==
  LET newZoom == FitZoom(containerSizeRef)
  IN /\ zoomChanges < MaxZoomChanges
     /\ zoomChanges' = zoomChanges + 1
     /\ zoomRef' = newZoom
     /\ panRef' = FitPan(containerSizeRef, newZoom)
     /\ dirtyFlags' = MarkDirty(dirtyFlags, {"text", "transform"})
     /\ redrawn' = {}
     /\ UNCHANGED << paintVars, containerSizeRef, pixiReady >>

\* The resize observer with the text layer left as it is.
Resize_MarksNothing(size) ==
  /\ pixiReady
  /\ size # containerSizeRef
  /\ size.width > 0 /\ size.height > 0
  /\ containerSizeRef' = size
  /\ redrawn' = {}
  /\ UNCHANGED << paintVars, zoomRef, panRef, zoomChanges, pixiReady, dirtyFlags >>

\* The resize observer measures the container.
Resize(size) ==
  /\ pixiReady
  /\ size # containerSizeRef
  /\ size.width > 0 /\ size.height > 0
  /\ containerSizeRef' = size
  /\ dirtyFlags' = MarkDirty(dirtyFlags, {"text"})
  /\ redrawn' = {}
  /\ UNCHANGED << paintVars, zoomRef, panRef, zoomChanges, pixiReady >>

\* initPixi: measure the container, fit the grid into it, mark every layer
\* dirty and start the render loop.
initPixi(size) ==
  LET newZoom == FitZoom(size)
  IN /\ ~ pixiReady
     /\ pixiReady' = TRUE
     /\ containerSizeRef' = size
     /\ zoomRef' = newZoom
     /\ panRef' = FitPan(size, newZoom)
     /\ dirtyFlags' = [f \in Flags |-> TRUE]
     /\ redrawn' = {}
     /\ UNCHANGED << paintVars, zoomChanges >>

(***************************************************************************)
(* The dirty flags and the render loop                                     *)
(***************************************************************************)
\* A handler or effect assigns true to the flags of `set`; it is no render pass.
Mark(set) ==
  /\ dirtyFlags' = MarkDirty(dirtyFlags, set)
  /\ redrawn' = {}
  /\ UNCHANGED << containerSizeRef, pixiReady, viewCall >>

\* The flags of a handlePointerMove whose pan step marks the border as well.
DirtiedByMove_PanMarksTransform(id, pt) ==
  IF Len(evCache) = 1 /\ isDraggingRef /\ ~ isPaintingRef /\ isPanningRef
    THEN {"text", "transform"} ELSE {}

\* The flags of a handlePointerMove whose optimistic draws mark the filled layer.
DirtiedByMove_MarksFilled(id, pt) ==
  IF Len(evCache) = 1 /\ isDraggingRef /\ isPaintingRef THEN {"filled"} ELSE {}

\* The flags handlePointerMove sets: a pinch step that zooms, a pan step.
DirtiedByMove(id, pt) ==
  LET k == FindIndex(evCache, id)
      cache == IF k > 0 THEN [evCache EXCEPT ![k] = Pointer(id, pt)] ELSE evCache
  IN IF Len(cache) = 2
       THEN IF prevDiff > 0 THEN {"text", "transform"} ELSE {}
     ELSE IF Len(cache) = 1 /\ isDraggingRef /\ ~ isPaintingRef /\ isPanningRef
       THEN {"text"}
     ELSE {}

\* The flags a release sets: in the stroke commit, in the tap, and in the
\* effect on [grid] when the release is rendered before the next event.
DirtiedByRelease(id, pt, discrete) ==
  LET k == FindIndex(evCache, id)
      cache == Released(evCache, k)
      committed == StrokeCommit(grid)
      tapped == TapOnRelease(committed.grid, pt)
      result == screenToGrid(pt[1], pt[2])
      byCommit == IF committed.calls > 0 THEN {"filled", "highlight", "text"} ELSE {}
      byTap == IF tapped.calls = 0 THEN {}
               ELSE IF brushSizeRef = 1
                 THEN {"highlight", "text"} \cup
                      (IF gridRef[result.index].filled THEN {"filled"} ELSE {})
               ELSE {"highlight", "text", "filled"}
      byEffect == IF discrete /\ committed.calls + tapped.calls > 0
                    THEN {"highlight", "text"} ELSE {}
  IN IF Len(cache) = 0 THEN byCommit \cup byTap \cup byEffect ELSE {}

\* The theme is switched: the effects on the colours and on the textures.
ToggleTheme ==
  /\ pixiReady
  /\ dirtyFlags' = MarkDirty(dirtyFlags, {"highlight", "text", "transform"})
  /\ redrawn' = {}
  /\ UNCHANGED << paintVars, zoomRef, panRef, zoomChanges, containerSizeRef, pixiReady >>

\* The render pass in which the highlight and text layers are redrawn only
\* for the highlight flag, and both flags are cleared.
RenderPass_TextNotRedrawn(flags) ==
  [redrawn |-> (IF flags.transform THEN {"transform"} ELSE {}) \cup
               (IF flags.filled THEN {"filled"} ELSE {}) \cup
               (IF flags.highlight THEN {"highlight", "text"} ELSE {}),
   flags |-> [f \in Flags |-> FALSE]]

\* One pass of render(): [redrawn, flags] = the flags whose layer group it
\* redrew and dirtyFlags.current after it.
RenderPass(flags) ==
  LET border == flags.transform
      filled == flags.filled
      overlay == flags.highlight \/ flags.text
  IN [redrawn |-> (IF border THEN {"transform"} ELSE {}) \cup
                  (IF filled THEN {"filled"} ELSE {}) \cup
                  (IF overlay THEN {"highlight", "text"} ELSE {}),
      flags |-> [transform |-> IF border THEN FALSE ELSE flags.transform,
                 filled |-> IF filled THEN FALSE ELSE flags.filled,
                 highlight |-> IF overlay THEN FALSE ELSE flags.highlight,
                 text |-> IF overlay THEN FALSE ELSE flags.text]]

\* An animation frame: render() runs once.
Render ==
  /\ pixiReady
  /\ redrawn' = RenderPass(dirtyFlags).redrawn
  /\ dirtyFlags' = RenderPass(dirtyFlags).flags
  /\ UNCHANGED << paintVars, zoomRef, panRef, zoomChanges, containerSizeRef, pixiReady >>

(***************************************************************************)
(* The workspace with its viewport and its renderer                        *)
(***************************************************************************)
\* Client positions of the fingers and of the wheel: near the grid, far away.
ViewPts == { <<20, 20>>, <<30, 30>>, <<430, 30>> }
\* The containers initPixi and the resize observer measure.
ContainerSizes == { Size(80, 60), Size(800, 600), Size(42, 41) }

\* Two fingers, the zoom controls and the wheel; the container keeps the size
\* initPixi measured and no animation frame arrives.
NextZoom ==
  \/ \E id \in TouchPointers, pt \in ViewPts :
        PointerDown(id, pt) /\ Mark({}) /\ UNCHANGED progressVars
  \/ \E id \in TouchPointers, pt \in ViewPts :
        PointerMove(id, pt) /\ Mark(DirtiedByMove(id, pt)) /\ UNCHANGED progressVars
  \/ \E id \in TouchPointers, pt \in ViewPts :
        PointerUp(id, pt) /\ Mark(DirtiedByRelease(id, pt, TRUE)) /\ UNCHANGED progressVars
  \/ zoomIn /\ UNCHANGED progressVars
  \/ zoomOut /\ UNCHANGED progressVars
  \/ \E pt \in ViewPts, deltaYPositive \in BOOLEAN :
        handleWheel(pt[1], pt[2], deltaYPositive) /\ UNCHANGED progressVars
  \/ handleCenter /\ UNCHANGED progressVars
  \/ \E size \in ContainerSizes : initPixi(size) /\ UNCHANGED progressVars

SpecZoom == Init /\ [][NextZoom]_vars

\* Client positions of the mouse: a short drag apart, over the first cell of
\* the grid fitted into the small container, outside the grid otherwise.
FramePts == { <<30, 30>>, <<36, 30>> }

\* The container initPixi measures, and those the resize observer reports.
FrameSize == Size(80, 60)
FrameSizes == { FrameSize, Size(800, 600) }
\* Where the wheel is turned.
WheelPts == { <<30, 30>> }
\* The palette buttons that are pressed.
FrameColors == { 0, 1 }

\* A mouse, the palette, the zoom controls, the theme switch and the
\* animation frames.
NextView ==
  \/ \E id \in MousePointers, pt \in FramePts :
        PointerDown(id, pt) /\ Mark({}) /\ UNCHANGED progressVars
  \/ \E id \in MousePointers, pt \in FramePts :
        PointerMove(id, pt) /\ Mark(DirtiedByMove(id, pt)) /\ UNCHANGED progressVars
  \/ \E id \in MousePointers, pt \in FramePts :
        PointerUp(id, pt) /\ Mark(DirtiedByRelease(id, pt, TRUE)) /\ UNCHANGED progressVars
  \/ \E c \in FrameColors :
        SelectColor(c) /\ Mark({"highlight", "text"}) /\ UNCHANGED progressVars
  \/ zoomIn /\ UNCHANGED progressVars
  \/ zoomOut /\ UNCHANGED progressVars
  \/ \E pt \in WheelPts, deltaYPositive \in BOOLEAN :
        handleWheel(pt[1], pt[2], deltaYPositive) /\ UNCHANGED progressVars
  \/ handleCenter /\ UNCHANGED progressVars
  \/ \E size \in FrameSizes : Resize(size) /\ UNCHANGED progressVars
  \/ initPixi(FrameSize) /\ UNCHANGED progressVars
  \/ ToggleTheme /\ UNCHANGED progressVars
  \/ Render /\ UNCHANGED progressVars

SpecView == Init /\ [][NextView]_vars

(***************************************************************************)
(* The viewport computations on doubles, each on its own                   *)
(***************************************************************************)
MinZoom == Dec(MIN_ZOOM, ZoomUnit)
MaxZoom == Dec(MAX_ZOOM, ZoomUnit)
CellSize == FOfInt(BASE_CELL_SIZE)
FPos(x, y) == Pos(FOfInt(x), FOfInt(y))

\* The zoom about an anchor with the pan left as it was.
ZoomAboutAnchor_KeepsPan(zoom, pan, anchor, zoomFactor) ==
  [zoom |-> FMax(MinZoom, FMin(MaxZoom, FMul(zoom, zoomFactor))), pan |-> pan]

\* The body of handleWheel, which is that of the pinch step: the new zoom
\* and the new pan for an anchor and a zoom factor.
ZoomAboutAnchor(zoom, pan, anchor, zoomFactor) ==
  LET newZoom == FMax(MinZoom, FMin(MaxZoom, FMul(zoom, zoomFactor)))
      worldX == FDiv(FSub(anchor.x, pan.x), zoom)
      worldY == FDiv(FSub(anchor.y, pan.y), zoom)
  IN [zoom |-> newZoom,
      pan |-> Pos(FSub(anchor.x, FMul(worldX, newZoom)),
                  FSub(anchor.y, FMul(worldY, newZoom)))]

\* screenToGrid on a grid of w x h cells, the container rect at the origin.
ScreenToGridOn(pan, zoom, clientX, clientY, w, h) ==
  LET gridX == FDiv(FSub(clientX, pan.x), zoom)
      gridY == FDiv(FSub(clientY, pan.y), zoom)
      col == FFloor(FDiv(gridX, CellSize))
      row == FFloor(FDiv(gridY, CellSize))
  IN IF col >= 0 /\ col < w /\ row >= 0 /\ row < h
       THEN [col |-> col, row |-> row, index |-> row * w + col]
       ELSE NoCell

\* Zooms the controls reach: 1, one and two steps of zoomIn from 1, the
\* limits, and 2.5.
ViewZooms == { FOfInt(1), Dec(12, 10), FMul(Dec(12, 10), Dec(12, 10)), MinZoom, MaxZoom,
               Dec(5, 2) }
ViewPans == { FPos(0, 0), FPos(-50, 20), FPos(300, 250), Pos(Dec(333, 10), Dec(-77, 10)) }
Anchors == { FPos(100, 100), FPos(400, 300), FPos(430, 30), FPos(25, 25) }
\* The factors of the wheel, and of pinch steps that change the distance of
\* the fingers by 100, -390 and 390 pixels.
ZoomFactors == { Dec(9, 10), Dec(11, 10) } \cup
               { FAdd(FOfInt(1), FMul(FOfInt(delta), Dec(5, 1000))) : delta \in {100, -390, 390} }

ZoomCalls ==
  { [op |-> "zoom", returned |-> FALSE, zoom |-> z, pan |-> p, anchor |-> a,
     zoomFactor |-> f, col |-> 0, row |-> 0, newZoom |-> z, newPan |-> p, cell |-> NoCell] :
      z \in ViewZooms, p \in ViewPans, a \in Anchors, f \in ZoomFactors }

GridCalls ==
  { [op |-> "grid", returned |-> FALSE, zoom |-> z, pan |-> p, anchor |-> FPos(0, 0),
     zoomFactor |-> FOfInt(1), col |-> c, row |-> r, newZoom |-> z, newPan |-> p,
     cell |-> NoCell] :
      z \in ViewZooms, p \in ViewPans, c \in 0 .. (MaxSide - 1), r \in 0 .. (MaxSide - 1) }

InitViewport ==
  /\ grid = ProjectGrid
  /\ gridRef = ProjectGrid
  /\ selectedColorIndexRef = 0
  /\ brushSizeRef = 1
  /\ zoomRef = ZoomUnit
  /\ panRef = Pos(0, 0)
  /\ evCache = << >>
  /\ prevDiff = -1
  /\ lastPointerPos = Pos(0, 0)
  /\ totalDragDistance = 0
  /\ isDraggingRef = FALSE
  /\ isPaintingRef = FALSE
  /\ isPanningRef = FALSE
  /\ paintedCellsInStrokeRef = {}
  /\ zoomChanges = 0
  /\ gesture = NoGesture
  /\ done = NotDone
  /\ brushCall = NoBrushCall
  /\ ProgressAtMount
  /\ containerSizeRef = Size(800, 600)
  /\ dirtyFlags = [f \in Flags |-> TRUE]
  /\ redrawn = {}
  /\ pixiReady = FALSE
  /\ viewCall \in ZoomCalls \cup GridCalls

\* The screen position of the origin of cell (col, row):
\* col * cellSize * zoom + pan.x, row * cellSize * zoom + pan.y.
CellOrigin(col, row, zoom, pan) ==
  Pos(FAdd(FMul(FMul(FOfInt(col), CellSize), zoom), pan.x),
      FAdd(FMul(FMul(FOfInt(row), CellSize), zoom), pan.y))

\* The zoom about the anchor is computed.
ZoomCallReturns ==
  LET result == ZoomAboutAnchor(viewCall.zoom, viewCall.pan, viewCall.anchor,
                                viewCall.zoomFactor)
  IN /\ viewCall.op = "zoom" /\ ~ viewCall.returned
     /\ viewCall' = [viewCall EXCEPT !.returned = TRUE, !.newZoom = result.zoom,
                                     !.newPan = result.pan]
     /\ UNCHANGED << grid, gridRef, selectedColorIndexRef, brushSizeRef, zoomRef, panRef,
                     evCache, prevDiff, lastPointerPos, totalDragDistance, isDraggingRef,
                     isPaintingRef, isPanningRef, paintedCellsInStrokeRef, zoomChanges,
                     gesture, done, brushCall, containerSizeRef, dirtyFlags, redrawn,
                     pixiReady >>

\* The origin of the cell is mapped to the screen and back through
\* screenToGrid, on a grid of MaxSide x MaxSide cells.
GridCallReturns ==
  LET origin == CellOrigin(viewCall.col, viewCall.row, viewCall.zoom, viewCall.pan)
  IN /\ viewCall.op = "grid" /\ ~ viewCall.returned
     /\ viewCall' = [viewCall EXCEPT
                       !.returned = TRUE,
                       !.anchor = origin,
                       !.cell = ScreenToGridOn(viewCall.pan, viewCall.zoom, origin.x,
                                               origin.y, MaxSide, MaxSide)]
     /\ UNCHANGED << grid, gridRef, selectedColorIndexRef, brushSizeRef, zoomRef, panRef,
                     evCache, prevDiff, lastPointerPos, totalDragDistance, isDraggingRef,
                     isPaintingRef, isPanningRef, paintedCellsInStrokeRef, zoomChanges,
                     gesture, done, brushCall, containerSizeRef, dirtyFlags, redrawn,
                     pixiReady >>

NextViewport ==
  \/ ZoomCallReturns /\ UNCHANGED progressVars
  \/ GridCallReturns /\ UNCHANGED progressVars

SpecViewport == InitViewport /\ [][NextViewport]_vars

(***************************************************************************)
(* The project list of the home screen                                     *)
(***************************************************************************)
\* Every variable of the workspace but viewCall.
workspaceVars == << grid, gridRef, selectedColorIndexRef, brushSizeRef, zoomRef, panRef,
                    evCache, prevDiff, lastPointerPos, totalDragDistance, isDraggingRef,
                    isPaintingRef, isPanningRef, paintedCellsInStrokeRef, zoomChanges,
                    gesture, done, brushCall, containerSizeRef, dirtyFlags, redrawn,
                    pixiReady >>

\* The workspace as constructed, no event handled yet.
IdleWorkspace ==
  /\ grid = ProjectGrid
  /\ gridRef = ProjectGrid
  /\ selectedColorIndexRef = 0
  /\ brushSizeRef = 1
  /\ zoomRef = ZoomUnit
  /\ panRef = Pos(0, 0)
  /\ evCache = << >>
  /\ prevDiff = -1
  /\ lastPointerPos = Pos(0, 0)
  /\ totalDragDistance = 0
  /\ isDraggingRef = FALSE
  /\ isPaintingRef = FALSE
  /\ isPanningRef = FALSE
  /\ paintedCellsInStrokeRef = {}
  /\ zoomChanges = 0
  /\ gesture = NoGesture
  /\ done = NotDone
  /\ brushCall = NoBrushCall
  /\ ProgressAtMount
  /\ containerSizeRef = Size(800, 600)
  /\ dirtyFlags = [f \in Flags |-> TRUE]
  /\ redrawn = {}
  /\ pixiReady = FALSE

\* The grids of the saved projects: one row of 1 .. MaxSide cells, each cell
\* unfilled, correct, or filled with the colour after its target.
StoredGrids ==
  UNION { { g \in [0 .. (n - 1) -> CellType] :
              \A i \in 0 .. (n - 1) :
                /\ g[i].colorIndex = ProjectGridOf(n, 1)[i].colorIndex
                /\ g[i].filled = (g[i].filledColorIndex # Undefined)
                /\ g[i].filledColorIndex \in
                     {Undefined, g[i].colorIndex, (g[i].colorIndex + 1) % NumColors} } :
          n \in 1 .. MaxSide }

\* project.grid.filter(c => c.filled).length
FilledCount(g) == Cardinality({ i \in DOMAIN g : g[i].filled })

\* Math.round((project.grid.filter(c => c.filled).length / project.grid.length) * 100)
ListPercent(g) ==
  LET total == Cardinality(DOMAIN g)
  IN (200 * FilledCount(g) + total) \div (2 * total)

\* project.completed === true || percent === 100
ListIsCompleted(project) == project.completed \/ ListPercent(project.grid) = 100

ListCalls ==
  { [op |-> "list", returned |-> FALSE, project |-> [grid |-> g, completed |-> c],
     percent |-> 0, isCompleted |-> FALSE] : g \in StoredGrids, c \in BOOLEAN }

InitList == IdleWorkspace /\ viewCall \in ListCalls

\* The home screen renders the card of the saved project.
ListCardRenders ==
  /\ viewCall.op = "list" /\ ~ viewCall.returned
  /\ viewCall' = [viewCall EXCEPT !.returned = TRUE,
                                  !.percent = ListPercent(viewCall.project.grid),
                                  !.isCompleted = ListIsCompleted(viewCall.project)]
  /\ UNCHANGED workspaceVars

NextList == ListCardRenders /\ UNCHANGED progressVars

SpecList == InitList /\ [][NextList]_vars

(***************************************************************************)
(* The overall completion percentage, on its own                           *)
(***************************************************************************)
\* Math.round(x) for x >= 0: the nearest integer, a tie going up.
MathRound(x) ==
  LET f == FFloor(x)
  IN IF FLess(FSub(x, FOfInt(f)), FDiv(FOfInt(1), FOfInt(2))) THEN f ELSE f + 1

\* Math.round((stats.correctlyFilled / stats.total) * 100)
DisplayedPercent(correctlyFilled, total) ==
  MathRound(FMul(FDiv(FOfInt(correctlyFilled), FOfInt(total)), FOfInt(100)))

\* The statistics of a completion pass over a grid of w x h cells of which
\* few, or all but few, are correct.
PercentCalls ==
  UNION { { [op |-> "percent", returned |-> FALSE, total |-> w * h, correctlyFilled |-> c,
             percent |-> 0, isCompleted |-> FALSE] :
            c \in { n \in 0 .. (w * h) : n <= MaxMissing \/ n >= w * h - MaxMissing } } :
          w \in 1 .. MaxGridSide, h \in 1 .. MaxGridSide }

InitPercent == IdleWorkspace /\ viewCall \in PercentCalls

\* The completion pass computes the percentage it displays and whether the
\* puzzle is completed.
PercentComputed ==
  /\ viewCall.op = "percent" /\ ~ viewCall.returned
  /\ viewCall' = [viewCall EXCEPT
                    !.returned = TRUE,
                    !.percent = DisplayedPercent(viewCall.correctlyFilled, viewCall.total),
                    !.isCompleted = (viewCall.correctlyFilled = viewCall.total
                                     /\ viewCall.total > 0)]
  /\ UNCHANGED workspaceVars

NextPercent == PercentComputed /\ UNCHANGED progressVars

SpecPercent == InitPercent /\ [][NextPercent]_vars

(***************************************************************************)
(* The effect that replaces a hidden selected colour, on its own           *)
(***************************************************************************)
\* A palette length, the hidden colours and the selected colour.
SwitchCalls ==
  UNION { { [op |-> "autoSwitch", returned |-> FALSE, paletteLength |-> n,
             hiddenColors |-> h, selectedColorIndex |-> c, settled |-> c] :
            h \in SUBSET (0 .. (n - 1)), c \in 0 .. (n - 1) } :
          n \in 1 .. MaxPalette }

InitSwitch == IdleWorkspace /\ viewCall \in SwitchCalls

\* The effect runs until it leaves the selection alone: once, since the colour
\* it selects is not hidden.
AutoSwitchSettles ==
  /\ viewCall.op = "autoSwitch" /\ ~ viewCall.returned
  /\ viewCall' = [viewCall EXCEPT
                    !.returned = TRUE,
                    !.settled = NextAvailableColorIn(
                                  viewCall.paletteLength, viewCall.hiddenColors,
                                  NextAvailableColorIn(viewCall.paletteLength,
                                                       viewCall.hiddenColors,
                                                       viewCall.selectedColorIndex))]
  /\ UNCHANGED workspaceVars

NextSwitch == AutoSwitchSettles /\ UNCHANGED progressVars

SpecSwitch == InitSwitch /\ [][NextSwitch]_vars

(***************************************************************************)
(* The highlight, border and text pass of render(), on its own             *)
(***************************************************************************)
\* The range of the pass with the view taken to start at the grid's origin.
VisibleRange_FromOrigin(pan, zoom, containerSize, w, h) ==
  LET invZoom == FDiv(FOfInt(1), zoom)
      viewRight == FMin(FOfInt(w * BASE_CELL_SIZE), FMul(FOfInt(containerSize.width), invZoom))
      viewBottom == FMin(FOfInt(h * BASE_CELL_SIZE), FMul(FOfInt(containerSize.height), invZoom))
  IN [startCol |-> 0,
      endCol |-> Min(w - 1, FCeil(FDiv(viewRight, CellSize)) + 1),
      startRow |-> 0,
      endRow |-> Min(h - 1, FCeil(FDiv(viewBottom, CellSize)) + 1)]

\* The visible area of render(): startCol, endCol, startRow, endRow for a
\* grid of w x h cells.
VisibleRange(pan, zoom, containerSize, w, h) ==
  LET totalWidth == FOfInt(w * BASE_CELL_SIZE)
      totalHeight == FOfInt(h * BASE_CELL_SIZE)
      invZoom == FDiv(FOfInt(1), zoom)
      viewLeft == FMax(FZero, FMul(FNeg(pan.x), invZoom))
      viewTop == FMax(FZero, FMul(FNeg(pan.y), invZoom))
      viewRight == FMin(totalWidth,
                        FAdd(viewLeft, FMul(FOfInt(containerSize.width), invZoom)))
      viewBottom == FMin(totalHeight,
                         FAdd(viewTop, FMul(FOfInt(containerSize.height), invZoom)))
  IN [startCol |-> Max(0, FFloor(FDiv(viewLeft, CellSize)) - 1),
      endCol |-> Min(w - 1, FCeil(FDiv(viewRight, CellSize)) + 1),
      startRow |-> Max(0, FFloor(FDiv(viewTop, CellSize)) - 1),
      endRow |-> Min(h - 1, FCeil(FDiv(viewBottom, CellSize)) + 1)]

\* The indices the loops of the pass visit: row * width + col over the
\* range, those outside the grid array skipped.
Iterated(range, w, g) ==
  { i \in DOMAIN g :
      \E row \in range.startRow .. range.endRow, col \in range.startCol .. range.endCol :
        i = row * w + col }

\* The pass that highlights every cell of the selected colour.
Classify_IgnoresHint(g, visited, selectedColorIndex, showHighlight) ==
  LET incorrect == { i \in visited : g[i].filled /\ g[i].filledColorIndex # Undefined
                                       /\ g[i].filledColorIndex # g[i].colorIndex }
      open == { i \in visited \ incorrect : ~ g[i].filled }
      highlight == { i \in open : g[i].colorIndex = selectedColorIndex }
  IN [highlightCells |-> highlight, normalCells |-> open \ highlight,
      incorrectFilledCells |-> incorrect]

\* The classification of the visited cells into highlightCells, normalCells
\* and incorrectFilledCells.
Classify(g, visited, selectedColorIndex, showHighlight) ==
  LET incorrect == { i \in visited : g[i].filled /\ g[i].filledColorIndex # Undefined
                                       /\ g[i].filledColorIndex # g[i].colorIndex }
      open == { i \in visited \ incorrect : ~ g[i].filled }
      highlight == { i \in open : g[i].colorIndex = selectedColorIndex /\ showHighlight }
  IN [highlightCells |-> highlight, normalCells |-> open \ highlight,
      incorrectFilledCells |-> incorrect]

\* The grid of the culling calls has CullSide x CullSide cells.
CullSide == 8
\* Zooms in thousandths, pans and containers of the passes.
PassZooms == { MIN_ZOOM, 500, ZoomUnit, 1440, 2500, MAX_ZOOM }
PassPans == { -350, -150, -35, 0, 20, 500 }
\* The culling calls: a view of the blank grid.
RangeCalls ==
  { [op |-> "range", returned |-> FALSE, zoom |-> z, pan |-> Pos(x, y), size |-> size,
     range |-> [startCol |-> 0, endCol |-> 0, startRow |-> 0, endRow |-> 0]] :
      z \in PassZooms, x \in PassPans, y \in PassPans, size \in ContainerSizes }

\* The views of the classification calls: the whole row, its right end.
PassViews == { [zoom |-> ZoomUnit, pan |-> Pos(0, 0)], [zoom |-> MAX_ZOOM, pan |-> Pos(-150, 0)] }
\* The classification calls: a row of cells, a selected colour, the hint mode
\* and a view.
PassCalls ==
  { [op |-> "pass", returned |-> FALSE, grid |-> g, selectedColorIndex |-> c,
     showHighlight |-> hint, zoom |-> v.zoom, pan |-> v.pan, size |-> FrameSize,
     visited |-> {}, highlightCells |-> {}, normalCells |-> {},
     incorrectFilledCells |-> {}] :
      g \in StoredGrids, c \in Colors, hint \in BOOLEAN, v \in PassViews }

InitPass == IdleWorkspace /\ viewCall \in RangeCalls \cup PassCalls

\* The visible area of a pass is computed.
RangeCallReturns ==
  /\ viewCall.op = "range" /\ ~ viewCall.returned
  /\ \E range \in { VisibleRange(FPos(viewCall.pan.x, viewCall.pan.y),
                                   Dec(viewCall.zoom, ZoomUnit), viewCall.size,
                                   CullSide, CullSide) } :
        viewCall' = [viewCall EXCEPT !.returned = TRUE, !.range = range]
  /\ UNCHANGED workspaceVars

\* A pass visits the cells of its visible area and classifies them.
PassCallReturns ==
  LET g == viewCall.grid
      w == Cardinality(DOMAIN g)
  IN /\ viewCall.op = "pass" /\ ~ viewCall.returned
     /\ \E range \in { VisibleRange(FPos(viewCall.pan.x, viewCall.pan.y),
                                      Dec(viewCall.zoom, ZoomUnit), viewCall.size, w, 1) } :
          \E visited \in { Iterated(range, w, g) } :
            \E lists \in { Classify(g, visited, viewCall.selectedColorIndex,
                                     viewCall.showHighlight) } :
              viewCall' = [viewCall EXCEPT
                             !.returned = TRUE,
                             !.visited = visited,
                             !.highlightCells = lists.highlightCells,
                             !.normalCells = lists.normalCells,
                             !.incorrectFilledCells = lists.incorrectFilledCells]
     /\ UNCHANGED workspaceVars

NextPass ==
  \/ RangeCallReturns /\ UNCHANGED progressVars
  \/ PassCallReturns /\ UNCHANGED progressVars

SpecPass == InitPass /\ [][NextPass]_vars

(***************************************************************************)
(* The frames and the viewport they were drawn for                         *)
(***************************************************************************)
\* The pan, zoom and container size a highlight, border and text pass reads.
CurrentView ==
  [op |-> "frame", returned |-> TRUE, zoom |-> zoomRef, pan |-> panRef,
   size |-> containerSizeRef]

\* An animation frame; viewCall keeps the view of the last highlight, border
\* and text pass.
RenderFrame ==
  /\ pixiReady
  /\ redrawn' = RenderPass(dirtyFlags).redrawn
  /\ dirtyFlags' = RenderPass(dirtyFlags).flags
  /\ viewCall' = IF "text" \in RenderPass(dirtyFlags).redrawn THEN CurrentView ELSE viewCall
  /\ UNCHANGED << grid, gridRef, selectedColorIndexRef, brushSizeRef, evCache, prevDiff,
                  lastPointerPos, totalDragDistance, isDraggingRef, isPaintingRef,
                  isPanningRef, paintedCellsInStrokeRef, gesture, done, brushCall,
                  zoomRef, panRef, zoomChanges, containerSizeRef, pixiReady >>

\* The container initPixi measures here: the fitted grid lies in its middle,
\* away from the fingers, which therefore pan and pinch.
WideFrame == Size(800, 600)

\* Two fingers, the zoom controls, the wheel, the resize observer and the
\* animation frames.
NextFrame ==
  \/ \E id \in TouchPointers, pt \in FramePts :
        PointerDown(id, pt) /\ Mark({}) /\ UNCHANGED progressVars
  \/ \E id \in TouchPointers, pt \in FramePts :
        PointerMove(id, pt) /\ Mark(DirtiedByMove(id, pt)) /\ UNCHANGED progressVars
  \/ \E id \in TouchPointers, pt \in FramePts :
        PointerUp(id, pt) /\ Mark(DirtiedByRelease(id, pt, TRUE)) /\ UNCHANGED progressVars
  \/ zoomIn /\ UNCHANGED progressVars
  \/ zoomOut /\ UNCHANGED progressVars
  \/ \E pt \in WheelPts, deltaYPositive \in BOOLEAN :
        handleWheel(pt[1], pt[2], deltaYPositive) /\ UNCHANGED progressVars
  \/ handleCenter /\ UNCHANGED progressVars
  \/ \E size \in FrameSizes : Resize(size) /\ UNCHANGED progressVars
  \/ initPixi(WideFrame) /\ UNCHANGED progressVars
  \/ RenderFrame /\ UNCHANGED progressVars

SpecFrame == Init /\ [][NextFrame]_vars

(***************************************************************************)
(* The workspace driven by three fingers                                   *)
(***************************************************************************)
NextPinch ==
  \/ \E id \in PinchPointers, pt \in TouchPts :
        PointerDown(id, pt) /\ UNCHANGED << progressVars, viewVars >>
  \/ \E id \in PinchPointers, pt \in TouchPts :
        PointerMove(id, pt) /\ UNCHANGED << progressVars, viewVars >>
  \/ \E id \in PinchPointers, pt \in TouchPts :
        PointerUp(id, pt) /\ UNCHANGED << progressVars, viewVars >>

SpecPinch == InitTouch /\ [][NextPinch]_vars

(***************************************************************************)
(* The project store (services/storage.ts)                                 *)
(***************************************************************************)
\* A stored project, as far as the store looks at it: its id, and `rev` for
\* everything else it carries (image, grid, completed flag, ...).
StoredProject(id, rev) == [id |-> id, rev |-> rev]

\* The length of the JSON text of a list of projects, in units of the
\* smallest project: a project of revision r takes r units.
Bytes(projects) ==
  LET size(p) == p.rev
      RECURSIVE sum(_)
      sum(k) == IF k = 0 THEN 0 ELSE size(projects[k]) + sum(k - 1)
  IN sum(Len(projects))

\* localStorage.getItem + JSON.parse: the list last written, [] when none.
\* JSON.stringify and JSON.parse give back numbers, strings, booleans and
\* arrays of them as they were, and leave out the properties that are undefined.
getProjects == storage

\* localStorage.setItem: the store after it; it throws, and the callers
\* swallow the error, when the text exceeds the quota of the origin.
setItem(projects) == IF Bytes(projects) <= StorageQuota THEN projects ELSE storage

\* projects.findIndex(p => p.id === id): 0 when there is none.
findIndexById(projects, id) ==
  IF \E k \in 1 .. Len(projects) : projects[k].id = id
    THEN CHOOSE k \in 1 .. Len(projects) :
           projects[k].id = id /\ \A j \in 1 .. (k - 1) : projects[j].id # id
    ELSE 0

\* The list saveProject writes, without the slice(0, 5).
Trimmed_Unlimited(projects) == projects

\* projects.slice(0, 5)
Trimmed(projects) == SubSeq(projects, 1, Min(Len(projects), MaxStored))

\* saveProject: replace the project of the same id, else put it in front.
saveProject(project) ==
  LET projects == getProjects
      index == findIndexById(projects, project.id)
      updated == IF index > 0 THEN [projects EXCEPT ![index] = project]
                 ELSE << project >> \o projects
  IN storage' = setItem(Trimmed(updated))

\* deleteProject: the list without the projects of that id.
deleteProject(id) ==
  storage' = setItem(SelectSeq(getProjects, LAMBDA p : p.id # id))

\* What the store functions leave alone.
appVars == << workspaceVars, completionTimeoutRef, completedPercent,
              completedColors, hiddenColors, showCompletionMessage, projectCompleted,
              feedback, mounted, initPending, appRef, rafIdRef, frameRequested,
              filledGraphics, incorrectFilledGraphics, saveTimers >>

\* The projects the application saves and deletes.
StoreIds == 1 .. NumIds
StoreProjects == { StoredProject(id, rev) : id \in StoreIds, rev \in 1 .. NumRevs }

InitStore == IdleWorkspace /\ viewCall = NoViewCall

\* History: the last call of a store function and its argument.
NextStore ==
  \/ \E project \in StoreProjects :
        /\ saveProject(project)
        /\ viewCall' = [op |-> "saveProject", returned |-> TRUE, project |-> project]
        /\ UNCHANGED appVars
  \/ \E id \in StoreIds :
        /\ deleteProject(id)
        /\ viewCall' = [op |-> "deleteProject", returned |-> TRUE, id |-> id]
        /\ UNCHANGED appVars

SpecStore == InitStore /\ [][NextStore]_vars

(***************************************************************************)
(* The lifetime of the renderer: mount, the asynchronous initPixi, the     *)
(* render loop, the fill layers, unmount                                   *)
(***************************************************************************)
\* The progress tracker's own state.
trackerVars == << completionTimeoutRef, completedPercent, completedColors, hiddenColors,
                  showCompletionMessage, projectCompleted, feedback >>

\* The layer objects exist from the continuation of initPixi on; it is also
\* what starts the loop, and neither the layer refs nor rafIdRef are reset.
LayersExist == rafIdRef # 0

\* immediatelyDrawFilledCell for each cell of `cells`, with the selected
\* colour: a rectangle on the opaque layer when the colour is the cell's
\* target, on the tint layer otherwise; nothing while the layers do not exist.
DrawnOn(layer, cells, opaque) ==
  [i \in Indices |->
     IF LayersExist /\ i \in cells /\ ((gridRef[i].colorIndex = selectedColorIndexRef) = opaque)
       THEN selectedColorIndexRef
       ELSE layer[i]]

ImmediatelyDraw(cells) ==
  /\ filledGraphics' = DrawnOn(filledGraphics, cells, TRUE)
  /\ incorrectFilledGraphics' = DrawnOn(incorrectFilledGraphics, cells, FALSE)

\* The cells handlePointerDown draws: the starting cells of a Paint stroke.
DrawnByDown(id, pt) ==
  IF Len(evCache) = 0 /\ StartsPaint(pt)
    THEN immediatelyDrawn(screenToGrid(pt[1], pt[2])) ELSE {}

\* The cells handlePointerMove draws: those of a paint step.
DrawnByMove(id, pt) ==
  LET k == FindIndex(evCache, id)
      result == screenToGrid(pt[1], pt[2])
  IN IF k > 0 /\ Len(evCache) = 1 /\ isDraggingRef /\ isPaintingRef /\ result.index # -1
          /\ ~ (brushSizeRef = 1 /\ result.index \in paintedCellsInStrokeRef)
       THEN immediatelyDrawn(result) ELSE {}

\* The cells a release draws: those of the tap.
DrawnByRelease(id, pt) ==
  LET k == FindIndex(evCache, id)
      cache == Released(evCache, k)
      result == screenToGrid(pt[1], pt[2])
  IN IF Len(cache) = 0 /\ isPanningRef /\ totalDragDistance < TapThreshold
          /\ result.index # -1
       THEN immediatelyDrawn(result) ELSE {}

\* The fill layers as the render pass redraws them from gridRef.current.
RedrawnLayer(opaque) ==
  [i \in Indices |->
     IF gridRef[i].filled /\ gridRef[i].filledColorIndex # Undefined
          /\ ((gridRef[i].filledColorIndex = gridRef[i].colorIndex) = opaque)
       THEN gridRef[i].filledColorIndex
       ELSE Undefined]

\* What the handlers of the mounted component leave alone.
rendererVars == << mounted, initPending, appRef, rafIdRef, frameRequested >>
persistVars == << saveTimers, storage >>

\* The mount effect calls initPixi, which measures the container and waits
\* for app.init.
initPixiBegins(size) ==
  /\ mounted /\ ~ initPending /\ rafIdRef = 0
  /\ initPending' = TRUE
  /\ containerSizeRef' = size
  /\ redrawn' = {}
  /\ UNCHANGED << paintVars, zoomRef, panRef, zoomChanges, pixiReady, dirtyFlags,
                  trackerVars, mounted, appRef, rafIdRef, frameRequested, filledGraphics,
                  incorrectFilledGraphics, persistVars >>

\* app.init has resolved: the layers are created, the grid is fitted into the
\* container, every flag is set and the render loop is started.  setPixiReady
\* is dropped by React when the component is not mounted.
initPixiResumes ==
  LET newZoom == FitZoom(containerSizeRef)
  IN /\ initPending
     /\ initPending' = FALSE
     /\ appRef' = "app"
     /\ zoomRef' = newZoom
     /\ panRef' = FitPan(containerSizeRef, newZoom)
     /\ dirtyFlags' = [f \in Flags |-> TRUE]
     /\ redrawn' = {}
     /\ pixiReady' = mounted
     /\ rafIdRef' = 1
     /\ frameRequested' = TRUE
     /\ UNCHANGED << paintVars, zoomChanges, containerSizeRef, trackerVars, mounted,
                     filledGraphics, incorrectFilledGraphics, persistVars >>

\* The user leaves the workspace: the cleanups of the effects run.  That of
\* initPixi cancels the requested frame and destroys the application, each
\* if its ref is set; that of the completion effect clears the debounce timer.
Unmount ==
  /\ mounted
  /\ mounted' = FALSE
  /\ frameRequested' = IF rafIdRef # 0 THEN FALSE ELSE frameRequested
  /\ appRef' = "null"
  /\ completionTimeoutRef' = 0
  /\ redrawn' = {}
  /\ UNCHANGED << paintVars, zoomRef, panRef, zoomChanges, containerSizeRef, dirtyFlags,
                  pixiReady, completedPercent, completedColors, hiddenColors,
                  showCompletionMessage, projectCompleted, feedback, initPending,
                  rafIdRef, filledGraphics, incorrectFilledGraphics, persistVars >>

\* A fill layer after a render pass: cleared and redrawn when `filled` is dirty.
LayerAfterPass(layer, opaque) ==
  IF dirtyFlags.filled THEN RedrawnLayer(opaque) ELSE layer

\* The browser runs the requested frame: render() makes its pass and requests
\* the next frame.
AnimationFrame ==
  /\ frameRequested
  /\ redrawn' = RenderPass(dirtyFlags).redrawn
  /\ dirtyFlags' = RenderPass(dirtyFlags).flags
  /\ filledGraphics' = LayerAfterPass(filledGraphics, TRUE)
  /\ incorrectFilledGraphics' = LayerAfterPass(incorrectFilledGraphics, FALSE)
  /\ rafIdRef' = 1
  /\ frameRequested' = TRUE
  /\ UNCHANGED << paintVars, zoomRef, panRef, zoomChanges, containerSizeRef, pixiReady,
                  trackerVars, mounted, initPending, appRef, persistVars >>

\* Client positions over the two cells of the grid fitted into FrameSize.
LifePts == { <<30, 30>>, <<50, 30>> }

\* A mouse on the mounted component, the palette, React's deferred render, the
\* asynchronous initialisation, the animation frames and the exit.
NextLife ==
  \/ \E id \in MousePointers, pt \in LifePts :
        /\ mounted
        /\ PointerDown(id, pt) /\ Mark({}) /\ ImmediatelyDraw(DrawnByDown(id, pt))
        /\ UNCHANGED << trackerVars, rendererVars, persistVars >>
  \/ \E id \in MousePointers, pt \in LifePts :
        /\ mounted
        /\ PointerMove(id, pt) /\ Mark(DirtiedByMove(id, pt))
        /\ ImmediatelyDraw(DrawnByMove(id, pt))
        /\ UNCHANGED << trackerVars, rendererVars, persistVars >>
  \/ \E id \in MousePointers, pt \in LifePts :
        /\ mounted
        /\ PointerUp(id, pt) /\ Mark(DirtiedByRelease(id, pt, TRUE))
        /\ ImmediatelyDraw(DrawnByRelease(id, pt))
        /\ UNCHANGED << trackerVars, rendererVars, persistVars >>
  \/ \E id \in MousePointers, pt \in LifePts :
        /\ mounted
        /\ PointerLeave(id, pt) /\ Mark(DirtiedByRelease(id, pt, FALSE))
        /\ ImmediatelyDraw(DrawnByRelease(id, pt))
        /\ UNCHANGED << trackerVars, rendererVars, persistVars >>
  \/ \E c \in FrameColors :
        /\ mounted
        /\ SelectColor(c) /\ Mark({"highlight", "text"})
        /\ UNCHANGED << trackerVars, lifeVars >>
  \/ /\ mounted
     /\ SyncGridRef /\ Mark({"highlight", "text"})
     /\ UNCHANGED << trackerVars, lifeVars >>
  \/ initPixiBegins(FrameSize)
  \/ initPixiResumes
  \/ AnimationFrame
  \/ Unmount

SpecLife == Init /\ [][NextLife]_vars

(***************************************************************************)
(* Persistence: the save timer of the completion pass                      *)
(***************************************************************************)
\* The `project` prop: the project the workspace was opened with.
OpenedProject == StoredProject(1, 1)

\* { ...project, grid, pixelSize, completed } as the store keeps it.
SavedProject(g) ==
  [grid |-> g, pixelSize |-> BASE_CELL_SIZE, completed |-> IsCompleted(g)] @@ OpenedProject

\* The completion pass ends by setting the timer that saves the grid of its
\* render one second later; the timer is kept in no ref.
ScheduleSave ==
  /\ Len(saveTimers) < MaxTimers
  /\ saveTimers' = Append(saveTimers, SavedProject(gridRef))
  /\ UNCHANGED << rendererVars, filledGraphics, incorrectFilledGraphics, storage >>

\* The debounce timer fires: the completion pass and its save timer.
CompletionPass == CompletionTimeout /\ ScheduleSave

\* The oldest save timer fires, mounted or not: saveProject.
SaveTimeout ==
  /\ saveTimers # << >>
  /\ saveProject(Head(saveTimers))
  /\ saveTimers' = Tail(saveTimers)
  /\ UNCHANGED << workspaceVars, viewCall, trackerVars, rendererVars, filledGraphics,
                  incorrectFilledGraphics >>

\* React renders the grid committed from the pointer-leave handler; the
\* effects on the new grid run.
Rerender ==
  /\ mounted
  /\ SyncGridRef /\ CompletionEffect(TRUE)
  /\ UNCHANGED << viewVars, lifeVars >>

\* The mouse on the cells while the workspace is mounted.
NextPaintMounted ==
  \/ \E id \in MousePointers, pt \in CellPts :
        /\ mounted
        /\ PointerDown(id, pt) /\ CompletionEffect(FALSE)
        /\ UNCHANGED << viewVars, lifeVars >>
  \/ \E id \in MousePointers, pt \in CellPts :
        /\ mounted
        /\ PointerMove(id, pt) /\ CompletionEffect(FALSE)
        /\ UNCHANGED << viewVars, lifeVars >>
  \/ \E id \in MousePointers, pt \in CellPts :
        /\ mounted
        /\ PointerUp(id, pt) /\ CompletionEffect(RenderedAfterRelease)
        /\ UNCHANGED << viewVars, lifeVars >>
  \/ \E id \in MousePointers, pt \in CellPts :
        /\ mounted
        /\ PointerLeave(id, pt) /\ CompletionEffect(FALSE)
        /\ UNCHANGED << viewVars, lifeVars >>

NextPersist ==
  \/ NextPaintMounted
  \/ Rerender
  \/ CompletionPass
  \/ SaveTimeout
  \/ HideCompletionMessage /\ UNCHANGED lifeVars
  \/ Unmount

\* The browser fires the timers that stay set, and React renders a pending
\* state update of a mounted component.
TimersFire == WF_vars(CompletionPass) /\ WF_vars(SaveTimeout) /\ WF_vars(Rerender)

SpecPersist == Init /\ [][NextPersist]_vars
SpecPersistFair == SpecPersist /\ TimersFire

(***************************************************************************)
(* Properties                                                              *)
(***************************************************************************)
\* A step in which the last pointer that was down is released.
LastRelease == Len(evCache) = 1 /\ Len(evCache') = 0

\* A release of pointer id at pt, whichever event delivers it.
Release(id, pt) == PointerUp(id, pt) \/ PointerLeave(id, pt) \/ PointerCancel(id, pt)

\* The cells of the brush area around the cell under pt (none outside the grid).
Footprint(pt) ==
  LET r == screenToGrid(pt[1], pt[2])
  IN IF r.index = -1 THEN {}
     ELSE SeqRange(BrushVisit(r.col, r.row, brushSizeRef, Width, Height))

\* The release resolves as a tap.
IsTap == isPanningRef /\ totalDragDistance < TapThreshold

C2_OneCommitPerPaintStroke ==
  (Len(evCache) = 0 /\ done.paint) => done.updates = 1

\* C3: in the step that releases the last pointer of a gesture that entered
\* Paint, every index the gesture put into the touched set has an applied
\* colour in the canonical grid afterwards.
C3_StrokeNeverSilentlyAborted ==
  [][(LastRelease /\ gesture.paint) => \A i \in gesture.touched : grid'[i].filled]_vars

C6_BrushIndicesInsideGridOnce ==
  brushCall.returned =>
    LET v == brushCall.visited
        cells == brushCall.cells
    IN /\ \A k \in 1 .. Len(cells) :
            /\ cells[k].col \in 0 .. (brushCall.width - 1)
            /\ cells[k].row \in 0 .. (brushCall.height - 1)
            /\ v[k] \in 0 .. (brushCall.width * brushCall.height - 1)
       /\ \A j, k \in 1 .. Len(v) : j # k => v[j] # v[k]

\* A brush of three cells has been applied at the bottom-right corner of a
\* grid larger than the brush: the area was clipped on two sides.
C6_Witness ==
  /\ brushCall.returned
  /\ brushCall.brushSize = 3
  /\ brushCall.width > 3 /\ brushCall.height > 3
  /\ brushCall.centerCol = brushCall.width - 1
  /\ brushCall.centerRow = brushCall.height - 1
  /\ Len(brushCall.visited) = 4

\* The ideal square of the brush: centred on (col,row) for odd sizes, with
\* (col,row) as its top-left cell for even sizes.
IdealSquare(col, row, size) ==
  LET lo == IF size % 2 = 0 THEN 0 ELSE size \div 2
  IN { [col |-> c, row |-> r] :
         c \in (col - lo) .. (col - lo + size - 1),
         r \in (row - lo) .. (row - lo + size - 1) }

\* C7: the cells one brush-area computation visits are exactly the cells of
\* the ideal square that lie inside the grid.
C7_FootprintIsClippedIdealSquare ==
  brushCall.returned =>
    { brushCall.cells[k] : k \in 1 .. Len(brushCall.cells) } =
      { cell \in IdealSquare(brushCall.centerCol, brushCall.centerRow, brushCall.brushSize) :
          /\ cell.col \in 0 .. (brushCall.width - 1)
          /\ cell.row \in 0 .. (brushCall.height - 1) }

\* C8: the first pointer-down enters Paint, with a non-empty touched set, iff
\* the cell under it is not yet correct and its target colour is the selected
\* colour; otherwise it enters Pan.
C8_PaintIffNotCorrectAndMatching ==
  [][(Len(evCache) = 0 /\ Len(evCache') = 1) => \A id \in PointerIds, pt \in Pts :
       PointerDown(id, pt) =>
         LET r == screenToGrid(pt[1], pt[2])
             valid == /\ r.index # -1
                      /\ ~ IsCorrect(gridRef[r.index])
                      /\ gridRef[r.index].colorIndex = selectedColorIndexRef
         IN /\ isPaintingRef' <=> valid
            /\ isPanningRef' <=> ~ valid
            /\ valid => paintedCellsInStrokeRef' # {}]_vars

\* C9: a release of the last pointer in Pan mode.  With less than 15 px of
\* accumulated drag the brush is applied once at the cell under the release
\* point, in that very step: at most one setGrid call, no cell outside the
\* brush area there changes, a cell inside it changes only to the selected
\* colour, and where the handlers' snapshot of the area is current every cell
\* of it that is not correct holds the selected colour afterwards.  With 15 px
\* or more the canonical grid is unchanged and no setGrid call is made.
C9_TapResolution ==
  [][(LastRelease /\ isPanningRef) => \A id \in PointerIds, pt \in Pts :
       Release(id, pt) =>
         IF totalDragDistance < TapThreshold
           THEN /\ done'.updates <= 1
                /\ \A i \in Indices \ Footprint(pt) : grid'[i] = grid[i]
                /\ \A i \in Footprint(pt) :
                     \/ grid'[i] = grid[i]
                     \/ grid'[i] = Cell(grid[i].colorIndex, TRUE, selectedColorIndexRef)
                /\ (\A i \in Footprint(pt) : gridRef[i] = grid[i]) =>
                     \A i \in Footprint(pt) :
                       ~ IsCorrect(grid[i]) => grid'[i].filledColorIndex = selectedColorIndexRef
                /\ done'.updates = 0 => grid' = grid
           ELSE grid' = grid /\ done'.updates = 0]_vars

\* A tap after 10 px of drag has just painted the cell under the release
\* point with the selected colour.
C9_Witness ==
  /\ Len(evCache) = 0
  /\ done.kind = "tap" /\ done.index # -1 /\ done.updates = 1
  /\ totalDragDistance > 0 /\ totalDragDistance < TapThreshold
  /\ grid[done.index].filledColorIndex = selectedColorIndexRef

\* C10: a pointer-move leaves the canonical grid as it is.  In Paint mode it
\* leaves zoom and pan alone and only extends the touched set, in Pan mode it
\* leaves zoom and the touched set alone, and with two pointers down it
\* leaves the touched set alone.
C10_MovesLeaveGridUnchanged ==
  [][\A id \in PointerIds, pt \in Pts :
       PointerMove(id, pt) =>
         /\ grid' = grid
         /\ Mode = "Paint" =>
              /\ zoomRef' = zoomRef /\ panRef' = panRef
              /\ paintedCellsInStrokeRef \subseteq paintedCellsInStrokeRef'
         /\ Mode = "Pan" =>
              /\ zoomRef' = zoomRef
              /\ paintedCellsInStrokeRef' = paintedCellsInStrokeRef
         /\ Len(evCache) = 2 =>
              paintedCellsInStrokeRef' = paintedCellsInStrokeRef]_vars

\* After a pinch has changed the viewport, a paint stroke has been dragged
\* onto a second cell and nothing has been committed yet.
C10_Witness ==
  /\ zoomChanges > 0
  /\ isPaintingRef
  /\ totalDragDistance > 0
  /\ Cardinality(paintedCellsInStrokeRef) > 1
  /\ \A i \in paintedCellsInStrokeRef : ~ grid[i].filled

\* The indices of the ideal square of the brush that lie inside a w x h grid.
IdealFootprint(col, row, size, w, h) ==
  { cell.row * w + cell.col :
      cell \in { c \in IdealSquare(col, row, size) :
                   c.col \in 0 .. (w - 1) /\ c.row \in 0 .. (h - 1) } }

\* C11: a tap leaves the grid's length and every cell's target colour as they
\* are, and changes no cell outside the brush footprint (the ideal square,
\* clipped to the grid) at the tapped cell.
C11_TapChangesOnlyFootprint ==
  brushCall.returned =>
    /\ DOMAIN brushCall.after = DOMAIN brushCall.before
    /\ \A i \in DOMAIN brushCall.before :
         brushCall.after[i].colorIndex = brushCall.before[i].colorIndex
    /\ \A i \in DOMAIN brushCall.before \
              IdealFootprint(brushCall.centerCol, brushCall.centerRow,
                             brushCall.brushSize, brushCall.width, brushCall.height) :
         brushCall.after[i] = brushCall.before[i]

C13_DoneFeedbackAtMostOnce ==
  /\ feedback.done <= 1
  /\ feedback.done > 0 => (~ projectCompleted /\ IsCompleted(gridRef))

\* A step is a completion pass.
IsCompletionPass == completionTimeoutRef' = completionTimeoutRef - 1

\* C14: each colour's completion animation is given at most once; it is given
\* exactly by the completion pass that first finds the colour complete, which
\* also hides the colour; a hidden colour stays hidden; and a colour that is
\* hidden without having been animated (complete when the project was opened)
\* stays in the completed set, so that no pass animates it.
C14_ColourFeedbackOneShot ==
  /\ [](\A c \in Colors :
          /\ feedback.animated[c] <= 1
          /\ feedback.animated[c] > 0 => c \in hiddenColors
          /\ (c \in hiddenColors /\ feedback.animated[c] = 0) => c \in completedColors)
  /\ [][\A c \in Colors :
          /\ c \in hiddenColors => c \in hiddenColors'
          /\ (feedback'.animated[c] # feedback.animated[c]) <=>
               (IsCompletionPass /\ c \in CompleteColors(gridRef) /\ c \notin completedColors)
          /\ feedback'.animated[c] # feedback.animated[c] =>
               (feedback'.animated[c] = 1 /\ c \notin hiddenColors /\ c \in hiddenColors')]_vars

\* Colour 1 was complete when the project was opened and is hidden without
\* animation; colour 0 has been completed in this session, animated once and
\* hidden, and the selected colour has moved on to colour 2.
C14_Witness ==
  /\ feedback.animated[0] = 1 /\ 0 \in hiddenColors
  /\ feedback.animated[1] = 0 /\ 1 \in hiddenColors
  /\ selectedColorIndexRef = 2
  /\ feedback.passes > 0

\* C15: the completion pass is debounced.  At most one timer is live; a pass
\* runs only when a timer is live and computes the percentage and the
\* complete colours from the grid of the last render; every render of a
\* changed grid leaves exactly one live timer, cancelling the pending pass;
\* no other step (a pointer move among them) sets a timer; at most one pass
\* runs between two renders of a changed grid; and a live timer eventually
\* fires.
C15_CompletionPassDebounced ==
  /\ [](completionTimeoutRef <= 1 /\ feedback.passes <= 1)
  /\ [][IsCompletionPass =>
          /\ completionTimeoutRef > 0
          /\ completedPercent' = Percent(gridRef)
          /\ completedColors' = CompleteColors(gridRef)
          /\ gridRef = grid => completedPercent' = Percent(grid)]_vars
  /\ [][gridRef' # gridRef => (completionTimeoutRef' = 1 /\ feedback'.passes = 0)]_vars
  /\ [][(gridRef' = gridRef /\ ~ RenderedAfterRelease) =>
          (completionTimeoutRef' <= completionTimeoutRef /\ feedback'.changes <= feedback.changes)]_vars
  /\ [][(completedPercent' # completedPercent \/ completedColors' # completedColors)
          => IsCompletionPass]_vars
  /\ [](completionTimeoutRef > 0 => <>(completionTimeoutRef = 0))

\* Two commits were rendered inside one debounce window and a single pass
\* has covered both: the percentage shown is that of the grid, all correct.
C15_Witness ==
  /\ feedback.batch = 2
  /\ feedback.passes = 1
  /\ completionTimeoutRef = 0
  /\ gridRef = grid
  /\ completedPercent = 100

\* A zoom request brought into [MIN_ZOOM, MAX_ZOOM].
InRange(z) == IF z < MIN_ZOOM THEN MIN_ZOOM ELSE IF z > MAX_ZOOM THEN MAX_ZOOM ELSE z

\* The zoom at which the grid, with a margin of 40 pixels, fills a container.
FitRequest(size) ==
  LET scaleX == ((size.width - 40) * ZoomUnit) \div (Width * BASE_CELL_SIZE)
      scaleY == ((size.height - 40) * ZoomUnit) \div (Height * BASE_CELL_SIZE)
  IN IF scaleX < scaleY THEN scaleX ELSE scaleY

\* C16: in every reachable state MIN_ZOOM <= zoom <= MAX_ZOOM, and every
\* operation that changes the zoom (a pinch step with any change of the
\* finger distance, the wheel, zoomIn, zoomOut, handleCenter, the initial fit
\* of initPixi) takes effect with its request brought into that range: none
\* is rejected.
C16_ZoomAlwaysClamped ==
  /\ [](MIN_ZOOM <= zoomRef /\ zoomRef <= MAX_ZOOM)
  /\ [][zoomIn => zoomRef' = InRange((zoomRef * 12) \div 10)]_vars
  /\ [][zoomOut => zoomRef' = InRange((zoomRef * 10) \div 12)]_vars
  /\ [][\A pt \in ViewPts :
          /\ handleWheel(pt[1], pt[2], TRUE) => zoomRef' = InRange((zoomRef * 9) \div 10)
          /\ handleWheel(pt[1], pt[2], FALSE) => zoomRef' = InRange((zoomRef * 11) \div 10)]_vars
  /\ [][handleCenter => zoomRef' = InRange(FitRequest(containerSizeRef))]_vars
  /\ [][\A size \in ContainerSizes :
          initPixi(size) => zoomRef' = InRange(FitRequest(size))]_vars
  /\ [][(Len(evCache') = 2 /\ prevDiff > 0 /\ zoomChanges < MaxZoomChanges) =>
          \A id \in TouchPointers, pt \in ViewPts :
            PointerMove(id, pt) =>
              zoomRef' = InRange((zoomRef * (ZoomUnit + 5 * (prevDiff' - prevDiff)))
                                   \div ZoomUnit)]_vars

\* After the fit at 5.0 in the 800 x 600 container, two fingers 400 pixels
\* apart have been brought 14 pixels apart: the pinch asked for a negative
\* zoom and the zoom is MIN_ZOOM.
C16_Witness ==
  /\ pixiReady
  /\ containerSizeRef = Size(800, 600)
  /\ zoomChanges = 1
  /\ Len(evCache) = 2
  /\ prevDiff = 14
  /\ zoomRef = MIN_ZOOM
  /\ panRef = Pos(31, 30)

\* The world coordinate under a screen coordinate: (screen - pan) / zoom.
World(screen, pan, zoom) == FDiv(FSub(screen, pan), zoom)

\* The call of the example: zoom 1, pan (0,0), anchor (100,100), factor 1.5.
IsExample ==
  /\ viewCall.op = "zoom" /\ viewCall.returned
  /\ viewCall.zoom = FOfInt(1) /\ viewCall.pan = FPos(0, 0)
  /\ viewCall.anchor = FPos(100, 100) /\ viewCall.zoomFactor = Dec(3, 2)

\* The zoom about an anchor gave newZoom = clamp(zoom * factor), and the
\* example gave newZoom 1.5 and newPan (-50,-50).
ZoomResultAsStated ==
  /\ viewCall.newZoom =
       LET z == FMul(viewCall.zoom, viewCall.zoomFactor)
       IN IF FLess(z, MinZoom) THEN MinZoom ELSE IF FLess(MaxZoom, z) THEN MaxZoom ELSE z
  /\ IsExample => viewCall.newZoom = Dec(3, 2) /\ viewCall.newPan = FPos(-50, -50)

\* C17 as stated: after a zoom about an anchor, whatever the viewport, the
\* anchor and the factor (clamped results included), the world point under
\* the anchor is equal, as a number, to the world point under it before; the
\* example gives newZoom = 1.5 and newPan = (-50,-50).
C17_WorldPointExactlyFixed ==
  (viewCall.op = "zoom" /\ viewCall.returned) =>
    /\ ZoomResultAsStated
    /\ World(viewCall.anchor.x, viewCall.newPan.x, viewCall.newZoom)
         = World(viewCall.anchor.x, viewCall.pan.x, viewCall.zoom)
    /\ World(viewCall.anchor.y, viewCall.newPan.y, viewCall.newZoom)
         = World(viewCall.anchor.y, viewCall.pan.y, viewCall.zoom)

\* 2^-50: eight units in the last place of a double.
Tolerance == [neg |-> FALSE, m |-> BigShl(BigOf(1), SignificandBits - 1), e |-> -102]

\* The world points before and after are as far apart, on the screen at the
\* new zoom, as rounding allows: at most Tolerance times the larger of
\* |anchor| and |newPan|.
WithinTolerance(anchor, pan, zoom, newPan, newZoom) ==
  LET before == World(anchor, pan, zoom)
      after == World(anchor, newPan, newZoom)
      moved == FMul(FAbs(FSub(after, before)), newZoom)
  IN ~ FLess(FMul(Tolerance, FMax(FAbs(anchor), FAbs(newPan))), moved)

\* C17, amended: after a zoom about an anchor the world point under the
\* anchor is the one that was under it before up to the rounding of the
\* double arithmetic, and exactly so in the example, which gives newZoom =
\* 1.5 and newPan = (-50,-50).
C17_WorldPointFixedWithinTolerance ==
  (viewCall.op = "zoom" /\ viewCall.returned) =>
    /\ ZoomResultAsStated
    /\ WithinTolerance(viewCall.anchor.x, viewCall.pan.x, viewCall.zoom,
                       viewCall.newPan.x, viewCall.newZoom)
    /\ WithinTolerance(viewCall.anchor.y, viewCall.pan.y, viewCall.zoom,
                       viewCall.newPan.y, viewCall.newZoom)
    /\ IsExample =>
         World(viewCall.anchor.x, viewCall.newPan.x, viewCall.newZoom)
           = World(viewCall.anchor.x, viewCall.pan.x, viewCall.zoom)

\* A pinch that would make the zoom negative has been clamped to MIN_ZOOM,
\* and the world point under the anchor has moved by a rounding error.
C17_Witness ==
  /\ viewCall.op = "zoom" /\ viewCall.returned
  /\ viewCall.zoomFactor.neg
  /\ viewCall.newZoom = MinZoom
  /\ World(viewCall.anchor.x, viewCall.newPan.x, viewCall.newZoom)
       # World(viewCall.anchor.x, viewCall.pan.x, viewCall.zoom)

\* C18: at a fixed viewport, the screen position of the origin of every cell
\* (col,row) of the grid is mapped by screenToGrid to that cell, with index
\* row * width + col.
C18_ScreenToGridLeftInverse ==
  (viewCall.op = "grid" /\ viewCall.returned) =>
    viewCall.cell = [col |-> viewCall.col, row |-> viewCall.row,
                     index |-> viewCall.row * MaxSide + viewCall.col]

\* The position maps outside the grid: screenToGrid returns null.
OutsideGrid(pt) == screenToGrid(pt[1], pt[2]).index = -1

\* The step leaves the canonical grid and the touched set of the stroke alone.
PaintingUntouched ==
  /\ grid' = grid
  /\ paintedCellsInStrokeRef' = paintedCellsInStrokeRef

\* C19: at a pointer position that maps outside the grid, screenToGrid
\* returns null and a pointer-down, a Paint-mode move and a tap change neither
\* the canonical grid nor the touched set of the stroke.
C19_OutsideGridIsNoOp ==
  [][\A id \in PointerIds, pt \in Pts \cup ViewPts :
       OutsideGrid(pt) =>
         /\ PointerDown(id, pt) => PaintingUntouched
         /\ (Len(evCache) = 1 /\ isDraggingRef /\ isPaintingRef /\ PointerMove(id, pt))
              => PaintingUntouched
         /\ (Len(evCache) = 1 /\ isPanningRef /\ totalDragDistance < TapThreshold
               /\ (PointerUp(id, pt) \/ PointerLeave(id, pt)))
              => PaintingUntouched]_vars

\* C20: no step other than a pass of the render loop changes a dirty flag
\* from true to false, and a pass clears a flag only when it has redrawn the
\* layer group of that flag in the same pass.
C20_OnlyRenderClearsDirtyFlags ==
  [][\A f \in Flags :
       (dirtyFlags[f] /\ ~dirtyFlags'[f]) => (Render /\ f \in redrawn')]_vars

\* A stroke or a tap has filled a cell and the next frame has redrawn the
\* filled, highlight and text layers and cleared every flag.
C20_Witness ==
  /\ pixiReady
  /\ \E i \in DOMAIN grid : grid[i].filled
  /\ redrawn = {"filled", "highlight", "text"}
  /\ \A f \in Flags : ~dirtyFlags[f]

\* C21: the percentage of a project card counts only the correctly filled
\* cells, so a project not marked completed whose cells all hold incorrect
\* colours is shown with 0% and not as completed.
C21_ListPercentCountsCorrectCells ==
  (viewCall.op = "list" /\ viewCall.returned) =>
    LET g == viewCall.project.grid
    IN /\ viewCall.percent = Percent(g)
       /\ ((\A i \in DOMAIN g : g[i].filled /\ ~ IsCorrect(g[i]))
             /\ ~ viewCall.project.completed)
            => (viewCall.percent = 0 /\ ~ viewCall.isCompleted)

\* C22: a step that begins or continues a Paint stroke, the optimistic draws
\* of its cells included, never sets the filled flag; the flag is set only by
\* the initialisation and by a release that commits a stroke or a tap.
C22_FilledFlagOnlyAtInitAndCommit ==
  [][/\ (isPaintingRef' /\ Len(evCache') >= 1 /\ pixiReady' = pixiReady)
          => (dirtyFlags'.filled => dirtyFlags.filled)
     /\ (~ dirtyFlags.filled /\ dirtyFlags'.filled)
          => \/ ~ pixiReady /\ pixiReady'
             \/ LastRelease /\ done'.updates > 0]_vars

\* A stroke is in progress after the frames have cleared the filled flag: its
\* first cell is drawn but not committed, and the flag is still clear.
C22_Witness ==
  /\ pixiReady
  /\ isPaintingRef /\ Len(evCache) = 1
  /\ paintedCellsInStrokeRef = {0} /\ ~ grid[0].filled
  /\ redrawn = {}
  /\ ~ dirtyFlags.filled

\* A step of zoomIn, zoomOut, handleWheel, handleCenter or of a pinch that
\* has a baseline.
ZoomOperation == zoomChanges' # zoomChanges

\* The step is the initialisation of the renderer.
Initialisation == ~ pixiReady /\ pixiReady'

\* The step sets the transform flag.
SetsTransform == ~ dirtyFlags.transform /\ dirtyFlags'.transform

\* C23 as stated: the transform flag is set by every operation that changes
\* the zoom and, after initialisation, by no other operation: not by panning,
\* painting, selection or a theme change.
C23_TransformFlagOnlyOnZoom ==
  [][/\ (zoomRef' # zoomRef) => dirtyFlags'.transform
     /\ SetsTransform => (ZoomOperation \/ Initialisation)]_vars

\* C23, amended: the transform flag is set by every operation that changes
\* the zoom, and a step that sets it is a zoom operation, the initialisation
\* or a theme change.
C23_TransformFlagOnZoomAndTheme ==
  [][/\ (zoomRef' # zoomRef) => dirtyFlags'.transform
     /\ ZoomOperation => dirtyFlags'.transform
     /\ SetsTransform => (ZoomOperation \/ Initialisation \/ ToggleTheme)]_vars

\* After the frames had cleared every flag, a zoom operation has set the text
\* and transform flags and no other.
C23_Witness ==
  /\ pixiReady
  /\ zoomChanges = 1
  /\ dirtyFlags = [f \in Flags |-> f \in {"text", "transform"}]

\* A pinch step that changes the zoom marks the transform flag.
PinchMarksTransform ==
  [][\A id \in TouchPointers, pt \in ViewPts :
       (Len(evCache) = 2 /\ PointerMove(id, pt) /\ zoomChanges' # zoomChanges)
         => "transform" \in DirtiedByMove(id, pt)]_vars

\* C24: after a highlight, border and text pass the highlighted cells are
\* exactly the visited cells that are not correct (unfilled or incorrectly
\* filled) and whose target colour is the selected colour when the hint mode
\* is on, and none when it is off.
C24_HighlightedCellsExact ==
  (viewCall.op = "pass" /\ viewCall.returned) =>
    viewCall.highlightCells =
      IF viewCall.showHighlight
        THEN { i \in viewCall.visited :
                 /\ ~ IsCorrect(viewCall.grid[i])
                 /\ viewCall.grid[i].colorIndex = viewCall.selectedColorIndex }
        ELSE {}

\* The rectangle of cell (col, row) on the screen meets the rectangle of the
\* container, in exact arithmetic: zoom in thousandths, pan and size in pixels.
CellIsVisible(col, row, zoom, pan, size) ==
  /\ col * BASE_CELL_SIZE * zoom + ZoomUnit * pan.x <= ZoomUnit * size.width
  /\ (col + 1) * BASE_CELL_SIZE * zoom + ZoomUnit * pan.x >= 0
  /\ row * BASE_CELL_SIZE * zoom + ZoomUnit * pan.y <= ZoomUnit * size.height
  /\ (row + 1) * BASE_CELL_SIZE * zoom + ZoomUnit * pan.y >= 0

\* C25: for every pan, zoom and container size the range of columns and rows
\* the pass iterates contains every grid cell whose rectangle meets the
\* container's screen rectangle, and lies within the grid.
C25_CullingKeepsVisibleCells ==
  (viewCall.op = "range" /\ viewCall.returned) =>
    LET range == viewCall.range
    IN /\ \A col \in 0 .. (CullSide - 1), row \in 0 .. (CullSide - 1) :
            CellIsVisible(col, row, viewCall.zoom, viewCall.pan, viewCall.size)
              => /\ range.startCol <= col /\ col <= range.endCol
                 /\ range.startRow <= row /\ row <= range.endRow
       /\ range.startCol >= 0 /\ range.endCol <= CullSide - 1
       /\ range.startRow >= 0 /\ range.endRow <= CullSide - 1

\* A pass on a view scrolled into the grid: columns are culled on both sides
\* and a visible cell is iterated.
C25_Witness ==
  /\ viewCall.op = "range" /\ viewCall.returned
  /\ viewCall.pan.x < 0
  /\ viewCall.range.startCol > 0 /\ viewCall.range.endCol < CullSide - 1
  /\ \E col \in viewCall.range.startCol .. viewCall.range.endCol,
        row \in viewCall.range.startRow .. viewCall.range.endRow :
       CellIsVisible(col, row, viewCall.zoom, viewCall.pan, viewCall.size)

\* The step changes the pan, the zoom or the container size.
ViewChanges ==
  panRef' # panRef \/ zoomRef' # zoomRef \/ containerSizeRef' # containerSizeRef

\* C26: every step that changes the pan, the zoom or the container size
\* leaves the highlight or the text flag set, and whenever both flags are
\* clear the last highlight, border and text pass was computed for the
\* current pan, zoom and container size.
C26_OverlayPassIsCurrent ==
  /\ [][ViewChanges => (dirtyFlags'.highlight \/ dirtyFlags'.text)]_vars
  /\ []((~ dirtyFlags.highlight /\ ~ dirtyFlags.text) => viewCall = CurrentView)

\* The frames have caught up with the view after a pinch that brought the
\* fingers 6 pixels closer has zoomed the fitted grid.
C26_Witness ==
  /\ pixiReady
  /\ ~ dirtyFlags.highlight /\ ~ dirtyFlags.text
  /\ Len(evCache) = 2 /\ zoomChanges = 1
  /\ zoomRef = (FitZoom(WideFrame) * (ZoomUnit - 6 * 5)) \div ZoomUnit
  /\ viewCall = CurrentView

\* C27: in every reachable state isPaintingRef and isPanningRef are not both
\* true, and neither is true while two or more pointers are down.
C27_ModesMutuallyExclusive ==
  /\ ~ (isPaintingRef /\ isPanningRef)
  /\ Len(evCache) >= 2 => (~ isPaintingRef /\ ~ isPanningRef)

\* A second finger has come down on a gesture that had entered Paint.
C27_Witness ==
  /\ Len(evCache) = 2
  /\ gesture.paint
  /\ ~ isPaintingRef /\ ~ isPanningRef

\* C28: whenever no pointer is down, isPaintingRef, isPanningRef and
\* isDraggingRef are false, the touched set is empty and the pinch baseline
\* is unset (prevDiff = -1).
C28_IdleWhenNoPointerDown ==
  Len(evCache) = 0 =>
    /\ ~ isPaintingRef /\ ~ isPanningRef /\ ~ isDraggingRef
    /\ paintedCellsInStrokeRef = {}
    /\ prevDiff = -1

\* Both fingers of a pinch that had a baseline have been lifted.
C28_Witness ==
  /\ Len(evCache) = 0
  /\ zoomChanges > 0
  /\ done.kind # "none"
  /\ prevDiff = -1 /\ ~ isDraggingRef

\* The step makes the number of pointers that are down exactly two.
BecomesTwo == Len(evCache) # 2 /\ Len(evCache') = 2

\* C29: whenever the number of pointers that are down becomes exactly two,
\* from one or from three, no pinch baseline is left over (the handler
\* zooms only on a baseline above zero), so that the first move after it only
\* records the distance of the pair; and a move of two pointers that finds
\* no baseline changes neither zoom nor pan.
C29_PinchBaselineFromCurrentPair ==
  /\ [][BecomesTwo => prevDiff' <= 0]_vars
  /\ [][(Len(evCache) = 2 /\ Len(evCache') = 2 /\ prevDiff <= 0)
          => (zoomRef' = zoomRef /\ panRef' = panRef)]_vars

\* The release of the last pointer of a Paint stroke that has cells to commit.
StrokeCommits == LastRelease /\ isPaintingRef /\ paintedCellsInStrokeRef # {}

\* C30: in the step that commits a Paint stroke, every cell of the stroke that
\* the commit writes and that was drawn immediately during the stroke gets, in
\* the canonical grid, the colour that was passed to its immediate draw,
\* also when the selected colour changed between the first pointer-down and
\* the last pointer-up.
C30_CommittedColourIsDrawnColour ==
  [][StrokeCommits =>
       \A i \in paintedCellsInStrokeRef :
          (gesture.drawn[i] # Undefined /\ ~ IsCorrect(grid[i]))
            => grid'[i].filledColorIndex = gesture.drawn[i]]_vars

\* The same for the strokes during which every immediate draw used the
\* colour that is selected at the release.
CommitMatchesDrawWithoutColourChange ==
  [][(StrokeCommits /\ \A i \in Indices :
                         gesture.drawn[i] \in {Undefined, selectedColorIndexRef}) =>
       \A i \in paintedCellsInStrokeRef :
          (gesture.drawn[i] # Undefined /\ ~ IsCorrect(grid[i]))
            => grid'[i].filledColorIndex = gesture.drawn[i]]_vars

\* A pointer-up, pointer-leave or pointer-cancel event of pointer id at pt.
ReleaseOf(id, pt) == PointerUp(id, pt) \/ PointerLeave(id, pt) \/ PointerCancel(id, pt)

\* C34: a pointer-up, pointer-leave or pointer-cancel event of a pointer that
\* is not tracked leaves the tracked pointers, the canonical grid, pan and
\* zoom as they were and ends no gesture: no commit and no tap is made.
C34_UntrackedReleaseIsNoOp ==
  [][\A id \in TouchPointers, pt \in TouchPts :
       (FindIndex(evCache, id) = 0 /\ ReleaseOf(id, pt)) =>
          /\ evCache' = evCache
          /\ grid' = grid
          /\ panRef' = panRef
          /\ zoomRef' = zoomRef
          /\ done' = done
          /\ paintedCellsInStrokeRef' = paintedCellsInStrokeRef]_vars

\* One finger is down with a stroke's cells waiting for their commit, and
\* the other finger, which is not down, can send a leave.
C34_Witness ==
  /\ Len(evCache) = 1
  /\ isPaintingRef
  /\ paintedCellsInStrokeRef # {}
  /\ FindIndex(evCache, 2) = 0
  /\ ENABLED (\E pt \in TouchPts : PointerLeave(2, pt))

\* C37: from the freshly converted grid, every cell of the canonical grid is
\* filled exactly when it has an applied colour, and a cell's applied colour
\* only ever changes to the colour that is selected in the step that commits
\* it, which also leaves the cell's target colour alone.
C37_FilledIffColourApplied ==
  /\ [](\A i \in Indices :
          /\ grid[i].filled <=> grid[i].filledColorIndex # Undefined
          /\ grid[i].filledColorIndex \in Colors \cup {Undefined})
  /\ [][\A i \in Indices :
          grid'[i] # grid[i] =>
             /\ grid'[i] = Cell(grid[i].colorIndex, TRUE, selectedColorIndexRef)
             /\ selectedColorIndexRef' = selectedColorIndexRef]_vars

\* Both cells have been committed, one with its target colour and one with
\* another colour.
C37_Witness ==
  /\ IsCorrect(grid[0])
  /\ grid[1].filled /\ grid[1].filledColorIndex # grid[1].colorIndex
  /\ grid[1].filledColorIndex # grid[0].filledColorIndex

\* The ids of the stored projects, in the order of the list.
StoredIds == [k \in 1 .. Len(storage) |-> storage[k].id]

\* The list holds at most 5 projects, of pairwise distinct ids.
AtMostFiveDistinct ==
  /\ Len(storage) <= MaxStored
  /\ \A j, k \in 1 .. Len(storage) : j # k => storage[j].id # storage[k].id

\* The list a saveProject call should leave: the project in the place of the
\* stored one of its id, else in front, the last entry evicted beyond 5.
ListAfterSave(projects, project) ==
  LET index == findIndexById(projects, project.id)
  IN IF index > 0 THEN [projects EXCEPT ![index] = project]
     ELSE IF Len(projects) < MaxStored THEN << project >> \o projects
     ELSE << project >> \o SubSeq(projects, 1, MaxStored - 1)

\* C38: from an empty store, after any sequence of saveProject and
\* deleteProject calls the list holds at most 5 projects of pairwise distinct
\* ids; the project just saved is in the list; and a save replaces the stored
\* project of the same id in place, or else puts the project in front and
\* evicts the last entry only when the list would exceed 5.
C38_StoreHoldsFiveDistinct ==
  /\ [](AtMostFiveDistinct)
  /\ [](viewCall.op = "saveProject" =>
          \E k \in 1 .. Len(storage) : storage[k] = viewCall.project)
  /\ [][viewCall'.op = "saveProject" =>
          storage' = ListAfterSave(storage, viewCall'.project)]_vars

\* The same, for the saves whose write fits into the quota; a save that does
\* not fit leaves the list as it was.
C38_StoreHoldsFiveDistinctUnlessFull ==
  /\ [](AtMostFiveDistinct)
  /\ [][viewCall'.op = "saveProject" =>
          LET list == ListAfterSave(storage, viewCall'.project)
          IN IF Bytes(list) <= StorageQuota
               THEN /\ storage' = list
                    /\ \E k \in 1 .. Len(storage') : storage'[k] = viewCall'.project
               ELSE storage' = storage]_vars

\* A sixth project has been saved to a full list and has taken the front
\* place, and the former last entry is gone.
C38_Witness ==
  /\ viewCall.op = "saveProject"
  /\ Len(storage) = MaxStored
  /\ storage[1] = viewCall.project
  /\ StoredIds = << 6, 5, 4, 3, 2 >>

\* C33: once the workspace is unmounted no frame of the render loop is
\* requested, so none is scheduled or executed after the cleanup, also when
\* the unmount comes while initPixi waits for app.init.
C33_NoFrameAfterUnmount == ~ mounted => ~ frameRequested

\* A frame is requested after the unmount only by an initPixi that resumed
\* after it: the application it created is then the one never destroyed.
FrameAfterUnmountOnlyByLateInit == ~ mounted /\ appRef = "null" => ~ frameRequested

\* The fill layers as the canonical grid prescribes them: a cell is on the
\* opaque layer with its applied colour when that is its target colour, on
\* the tint layer when it is another colour, and on neither when it has none.
CanonicalLayer(opaque) ==
  [i \in Indices |->
     IF grid[i].filled /\ grid[i].filledColorIndex # Undefined
          /\ ((grid[i].filledColorIndex = grid[i].colorIndex) = opaque)
       THEN grid[i].filledColorIndex
       ELSE Undefined]

\* No pointer is down, React has synchronised gridRef with the committed grid
\* and the render loop has consumed every dirty flag.
Quiescent ==
  /\ LayersExist
  /\ Len(evCache) = 0
  /\ gridRef = grid
  /\ \A f \in Flags : ~ dirtyFlags[f]

\* C31: whenever the renderer is quiescent the fill layers show exactly the
\* cells with an applied colour in the canonical grid, opaque for a correct
\* and tinted for an incorrect fill, and no other cell.
C31_LayersReconciledWhenQuiescent ==
  Quiescent =>
    /\ filledGraphics = CanonicalLayer(TRUE)
    /\ incorrectFilledGraphics = CanonicalLayer(FALSE)

\* A commit has changed the grid the project was opened with.
Committed == grid # ProjectGrid

\* The store holds the opened project with the canonical grid.
Persisted ==
  \E k \in 1 .. Len(storage) : storage[k].id = OpenedProject.id /\ storage[k].grid = grid

\* C32: every mutation of the canonical grid is eventually persisted: from
\* some point on the stored project carries the most recent grid, also when
\* the user leaves the workspace shortly after the commit.
C32_EveryCommitEventuallySaved == <>[](Committed => Persisted)

\* While the workspace stays mounted every commit is eventually saved.
CommitSavedWhileMounted == <>[](Committed /\ mounted => Persisted)

\* The effect has settled on a call in which the selected colour was hidden
\* and some colour of the palette was not.
SwitchedAway ==
  /\ viewCall.op = "autoSwitch" /\ viewCall.returned
  /\ viewCall.selectedColorIndex \in viewCall.hiddenColors
  /\ viewCall.hiddenColors # 0 .. (viewCall.paletteLength - 1)

\* C35: once the auto-switch effect has settled the selected colour is not a
\* hidden one unless every colour of the palette is hidden; a selected colour
\* that is visible stays, and one that is hidden is replaced by the first
\* visible index after it or, when there is none, by the first visible index
\* before it.
C35_SelectionLeavesHiddenColour ==
  (viewCall.op = "autoSwitch" /\ viewCall.returned) =>
    LET palette == 0 .. (viewCall.paletteLength - 1)
        visible == palette \ viewCall.hiddenColors
        s == viewCall.selectedColorIndex
        r == viewCall.settled
    IN /\ visible # {} => r \in visible
       /\ s \in visible => r = s
       /\ visible = {} => r = s
       /\ SwitchedAway =>
            IF \E i \in visible : i > s
              THEN r > s /\ \A i \in visible : i > s => r <= i
              ELSE r < s /\ \A i \in visible : r <= i

\* The selection wrapped around: every colour after the hidden selected one is
\* hidden, and the first visible colour is not the first of the palette.
C35_Witness ==
  /\ SwitchedAway
  /\ viewCall.settled < viewCall.selectedColorIndex
  /\ viewCall.settled > 0

\* In the workspace the selected colour is never a hidden one while a colour
\* of the palette is visible.
SelectedColourVisible ==
  selectedColorIndexRef \in hiddenColors => hiddenColors = Colors

\* C36: the displayed overall percentage is 100 only when every cell is
\* correct, for the grids of every size.
C36_HundredOnlyWhenAllCorrect ==
  (viewCall.op = "percent" /\ viewCall.returned /\ viewCall.percent = 100)
    => viewCall.correctlyFilled = viewCall.total

\* For a grid of fewer than 200 cells 100 is displayed only when every cell
\* is correct; the completed flag is exact for every grid.
HundredOnlyWhenAllCorrectBelow200 ==
  (viewCall.op = "percent" /\ viewCall.returned) =>
    /\ (viewCall.total < 200 /\ viewCall.percent = 100)
         => viewCall.correctlyFilled = viewCall.total
    /\ viewCall.isCompleted <=> viewCall.correctlyFilled = viewCall.total

\* The double computation of the percentage agrees with rounding the exact
\* quotient to the nearest integer, a tie going up.
PercentIsExactRounding ==
  (viewCall.op = "percent" /\ viewCall.returned) =>
    viewCall.percent =
      (200 * viewCall.correctlyFilled + viewCall.total) \div (2 * viewCall.total)

====
